---- MODULE Spec2Model ----
(***************************************************************************)
(* Model of docscope-mcp's documentation-quality engine:                   *)
(*   - PythonAnalyzer.analyze, the analysis pipeline, as a state machine   *)
(*     over the process-wide SIGALRM state (handler and pending alarm);    *)
(*   - the assessor and the priority scorer as operators over texts, a     *)
(*     text being a sequence of one-character strings.                     *)
(* Scores are kept as fractions [num, den]; cutoffs are in thousandths.    *)
(***************************************************************************)
EXTENDS Naturals, Integers, Sequences, FiniteSets, TLC

\* ------------------------------------------------------------------ texts

\* The characters that stand for themselves are one-character strings; the
\* ones below stand for a single character that has no ASCII spelling.
NUL == "chr(0)"
BULLET == "u2022"
ARROW == "u2192"
THETA == "u0398"
OMEGA == "u03A9"

UpperCase == <<"A","B","C","D","E","F","G","H","I","J","K","L","M",
               "N","O","P","Q","R","<<",">>T","U","V","W","X","Y","Z">>
LowerCase == <<"a","b","c","d","e","f","g","h","i","j","k","l","m",
               "n","o","p","q","r","s","t","u","v","w","x","y","z">>

IsUpper(c) == \E i \in 1..Len(UpperCase) : UpperCase[i] = c

\* str.lower(), one character
ToLower(c) ==
    IF IsUpper(c) THEN LowerCase[CHOOSE i \in 1..Len(UpperCase) : UpperCase[i] = c]
    ELSE c

lower(s) == [i \in 1..Len(s) |-> ToLower(s[i])]

\* the characters str.strip() removes
IsSpace(c) == c \in {" ", "\n", "\t"}

RECURSIVE lstrip(_)
lstrip(s) == IF s # <<>> /\ IsSpace(Head(s)) THEN lstrip(Tail(s)) ELSE s

RECURSIVE rstrip(_)
rstrip(s) ==
    IF s # <<>> /\ IsSpace(s[Len(s)]) THEN rstrip(SubSeq(s, 1, Len(s) - 1)) ELSE s

strip(s) == rstrip(lstrip(s))

\* kw in s
contains(s, kw) ==
    \E i \in 1..(Len(s) + 1 - Len(kw)) : SubSeq(s, i, i + Len(kw) - 1) = kw

startswith(s, p) == Len(s) >= Len(p) /\ SubSeq(s, 1, Len(p)) = p

\* s.split("\n"): always at least one line
RECURSIVE split_lines(_)
split_lines(s) ==
    IF \A i \in 1..Len(s) : s[i] # "\n" THEN <<s>>
    ELSE LET k == CHOOSE i \in 1..Len(s) :
                      s[i] = "\n" /\ \A j \in 1..(i - 1) : s[j] # "\n"
         IN  <<SubSeq(s, 1, k - 1)>> \o split_lines(SubSeq(s, k + 1, Len(s)))

\* s.count("\n\n"): occurrences that do not overlap, left to right
RECURSIVE count_blank_lines(_)
count_blank_lines(s) ==
    IF \A i \in 1..(Len(s) - 1) : ~(s[i] = "\n" /\ s[i + 1] = "\n") THEN 0
    ELSE LET k == CHOOSE i \in 1..(Len(s) - 1) :
                      /\ s[i] = "\n" /\ s[i + 1] = "\n"
                      /\ \A j \in 1..(i - 1) : ~(s[j] = "\n" /\ s[j + 1] = "\n")
         IN  1 + count_blank_lines(SubSeq(s, k + 2, Len(s)))

Min(a, b) == IF a < b THEN a ELSE b

\* ---------------------------------------------------------- configuration

\* QualityThresholds(): the defaults of models/quality.py
DEFAULT_THRESHOLDS ==
    [max_brief_lines |-> 1, max_brief_lines_extended |-> 3, min_brief_chars |-> 100,
     min_detailed_lines_standard |-> 5, min_detailed_lines_test |-> 10,
     min_detailed_chars_standard |-> 200, min_detailed_chars_test |-> 300,
     min_comprehensive_chars_standard |-> 300,
     min_comprehensive_chars_standard_terse |-> 150,
     min_comprehensive_chars_test |-> 500, min_comprehensive_chars_test_terse |-> 200,
     complexity_medium |-> 5, complexity_high |-> 10,
     max_param_priority_contribution |-> 3,
     min_bullet_points |-> 3, min_paragraph_breaks |-> 2]

\* {"excellent": 0.8, "good": 0.6, "basic": 0.3}, in thousandths
QUALITY_SCORE_THRESHOLDS == [excellent |-> 800, good |-> 600, basic |-> 300]

\* QualityThresholds(**over): a frozen dataclass, fields not given keep their default
QualityThresholds(over) == over @@ DEFAULT_THRESHOLDS

\* AnalysisConfig(): the defaults of models/config.py
DEFAULT_CONFIG ==
    [quality_thresholds |-> QUALITY_SCORE_THRESHOLDS,
     thresholds |-> DEFAULT_THRESHOLDS,
     max_code_size |-> 5 * 1024 * 1024,
     min_docstring_length |-> 10,
     max_ast_depth |-> 100,
     ast_parse_timeout |-> 5,
     max_file_path_length |-> 4096]

\* AnalysisConfig(**over): the dataclass constructor; it validates nothing
AnalysisConfig(over) == over @@ DEFAULT_CONFIG

\* The value None; no text equals it (a text holds one-character strings only)
PyNone == <<"<None>">>

\* truth value of an optional text: None and "" are false
Truthy(x) == x # PyNone /\ x # <<>>

\* ------------------------------------------------------------ dictionaries

\* A dict is the sequence of its <<key, value>> items in insertion order.
DictHas(d, key) == \E i \in 1..Len(d) : d[i][1] = key

\* d.get(key, default)
DictGet(d, key, default) ==
    IF DictHas(d, key) THEN d[CHOOSE i \in 1..Len(d) : d[i][1] = key][2] ELSE default

\* d[key] = value: an existing key keeps its place, a new one goes last
DictSet(d, key, value) ==
    IF DictHas(d, key)
    THEN [i \in 1..Len(d) |-> IF d[i][1] = key THEN <<key, value>> ELSE d[i]]
    ELSE Append(d, <<key, value>>)

\* d.update(other)
RECURSIVE DictUpdate(_, _)
DictUpdate(d, other) ==
    IF other = <<>> THEN d
    ELSE DictUpdate(DictSet(d, Head(other)[1], Head(other)[2]), Tail(other))


\* QualityIndicators: the indicator names, in the order the class declares them
QualityIndicators ==
    <<<<"b","r","i","e","f","_","d","e","s","c","r","i","p","t","i","o","n">>, <<"d","e","t","a","i","l","e","d","_","d","e","s","c","r","i","p","t","i","o","n">>, <<"a","r","g","s","_","s","e","c","t","i","o","n">>,
      <<"r","e","t","u","r","n","s","_","s","e","c","t","i","o","n">>, <<"r","a","i","s","e","s","_","s","e","c","t","i","o","n">>, <<"e","x","a","m","p","l","e","_","s","e","c","t","i","o","n">>,
      <<"b","u","s","i","n","e","s","s","_","c","o","n","t","e","x","t">>, <<"i","m","p","l","e","m","e","n","t","a","t","i","o","n","_","d","e","t","a","i","l","s">>, <<"a","r","r","a","n","g","e","m","e","n","t","_","s","t","e","p","s">>,
      <<"a","c","t","i","o","n","_","d","e","s","c","r","i","p","t","i","o","n">>, <<"a","s","s","e","r","t","i","o","n","_","s","t","r","a","t","e","g","y">>, <<"t","e","s","t","i","n","g","_","p","r","i","n","c","i","p","l","e","s">>,
      <<"c","o","m","p","r","e","h","e","n","s","i","v","e","_","c","o","n","t","e","n","t">>>>
\* ---------------------------------------------------------------- assessor

\* PythonAnalyzer._is_test_function
_is_test_function(func_name) == startswith(func_name, <<"t","e","s","t","_">>)

_is_bullet_line(line) ==
    \/ startswith(strip(line), <<BULLET>>)
    \/ startswith(strip(line), <<"-">>)
    \/ startswith(strip(line), <<"*">>)
    \/ startswith(strip(line), <<"1",".">>)
    \/ startswith(strip(line), <<"2",".">>)
    \/ startswith(strip(line), <<"3",".">>)

\* PythonAnalyzer._detect_terse_notation
_detect_terse_notation(cfg, docstring) ==
    LET lines == split_lines(strip(docstring))
        has_bullet_list ==
            Len(SelectSeq(lines, _is_bullet_line)) >= cfg.thresholds.min_bullet_points
        has_technical_specs ==
            \/ contains(docstring, <<":">>)
            \/ contains(docstring, <<ARROW>>)
            \/ contains(docstring, <<"=">>)
            \/ contains(docstring, <<"O","(">>)
            \/ contains(docstring, <<THETA, "(">>)
            \/ contains(docstring, <<OMEGA, "(">>)
        has_structured_sections ==
            count_blank_lines(docstring) >= cfg.thresholds.min_paragraph_breaks
    IN  has_bullet_list \/ (has_technical_specs /\ has_structured_sections)

_is_non_empty_line(line) == strip(line) # <<>>

\* PythonAnalyzer._count_non_empty_lines
_count_non_empty_lines(docstring) ==
    Len(SelectSeq(split_lines(strip(docstring)), _is_non_empty_line))

\* PythonAnalyzer._is_brief_one_liner
_is_brief_one_liner(cfg, docstring, is_terse_complete) ==
    LET non_empty_count == _count_non_empty_lines(docstring)
    IN  /\ \/ non_empty_count <= cfg.thresholds.max_brief_lines
           \/ /\ non_empty_count <= cfg.thresholds.max_brief_lines_extended
              /\ Len(docstring) < cfg.thresholds.min_brief_chars
        /\ ~is_terse_complete

\* REGEX_BRIEF_DESCRIPTION.search(line): ^\s*[A-Z][^.]*\.$ on a stripped line
REGEX_BRIEF_DESCRIPTION(line) ==
    LET s == lstrip(line)
    IN  /\ Len(s) >= 2
        /\ IsUpper(s[1])
        /\ s[Len(s)] = "."
        /\ \A i \in 2..(Len(s) - 1) : s[i] # "."

\* PythonAnalyzer._check_brief_and_detailed
_check_brief_and_detailed(cfg, docstring, lines, is_brief_one_liner, is_terse_complete, is_test_function) ==
    LET non_empty_count == _count_non_empty_lines(docstring)
        min_lines == IF is_test_function
                     THEN cfg.thresholds.min_detailed_lines_test
                     ELSE cfg.thresholds.min_detailed_lines_standard
        min_chars == IF is_test_function
                     THEN cfg.thresholds.min_detailed_chars_test
                     ELSE cfg.thresholds.min_detailed_chars_standard
    IN  << <<<<"b","r","i","e","f","_","d","e","s","c","r","i","p","t","i","o","n">>,
             REGEX_BRIEF_DESCRIPTION(strip(lines[1])) /\ ~is_brief_one_liner>>,
           <<<<"d","e","t","a","i","l","e","d","_","d","e","s","c","r","i","p","t","i","o","n">>,
             (non_empty_count > min_lines /\ Len(docstring) > min_chars)
                 \/ is_terse_complete>> >>

\* variant of _check_documentation_sections that knows one spelling of each header
_check_documentation_sections_one_spelling(docstring) ==
    << <<<<"a","r","g","s","_","s","e","c","t","i","o","n">>, contains(docstring, <<"A","r","g","s",":">>)>>,
       <<<<"r","e","t","u","r","n","s","_","s","e","c","t","i","o","n">>, contains(docstring, <<"R","e","t","u","r","n","s",":">>)>>,
       <<<<"r","a","i","s","e","s","_","s","e","c","t","i","o","n">>, contains(docstring, <<"R","a","i","s","e","s",":">>)>>,
       <<<<"e","x","a","m","p","l","e","_","s","e","c","t","i","o","n">>, contains(docstring, <<"E","x","a","m","p","l","e","s",":">>)>> >>

\* PythonAnalyzer._check_documentation_sections
_check_documentation_sections(docstring) ==
    << <<<<"a","r","g","s","_","s","e","c","t","i","o","n">>,
         contains(docstring, <<"A","r","g","s",":">>) \/ contains(docstring, <<"P","a","r","a","m","e","t","e","r","s",":">>)>>,
       <<<<"r","e","t","u","r","n","s","_","s","e","c","t","i","o","n">>,
         contains(docstring, <<"R","e","t","u","r","n","s",":">>) \/ contains(docstring, <<"R","e","t","u","r","n",":">>)>>,
       <<<<"r","a","i","s","e","s","_","s","e","c","t","i","o","n">>,
         contains(docstring, <<"R","a","i","s","e","s",":">>) \/ contains(docstring, <<"R","a","i","s","e",":">>)>>,
       <<<<"e","x","a","m","p","l","e","_","s","e","c","t","i","o","n">>,
         contains(docstring, <<"E","x","a","m","p","l","e",":">>) \/ contains(docstring, <<"E","x","a","m","p","l","e","s",":">>)>> >>

BusinessKeywords ==
    {<<"b","u","s","i","n","e","s","s">>, <<"p","u","r","p","o","s","e">>, <<"c","o","n","t","e","x","t">>, <<"r","e","s","p","o","n","s","i","b","l","e">>,
     <<"p","r","o","t","o","c","o","l">>, <<"i","n","t","e","r","f","a","c","e">>, <<"i","m","p","l","e","m","e","n","t","s">>, <<"p","r","o","v","i","d","e","s">>}

\* PythonAnalyzer._check_context_and_details
_check_context_and_details(cfg, docstring, is_terse_complete) ==
    << <<<<"b","u","s","i","n","e","s","s","_","c","o","n","t","e","x","t">>,
         \E keyword \in BusinessKeywords : contains(lower(docstring), keyword)>>,
       <<<<"i","m","p","l","e","m","e","n","t","a","t","i","o","n","_","d","e","t","a","i","l","s">>,
         \/ Len(docstring) > cfg.thresholds.min_comprehensive_chars_standard
         \/ /\ is_terse_complete
            /\ Len(docstring) > cfg.thresholds.min_comprehensive_chars_standard_terse>> >>

ArrangementKeywords ==
    {<<"A","r","r","a","n","g","e","m","e","n","t">>, <<"S","e","t","u","p">>, <<"G","i","v","e","n">>, <<"A","R","R","A","N","G","E">>, <<"A","r","r","a","n","g","e",":">>, <<"S","e","t","u","p",":">>, <<"G","i","v","e","n",":">>}
ActionKeywords ==
    {<<"A","c","t","i","o","n">>, <<"W","h","e","n">>, <<"A","C","T">>, <<"e","x","e","c","u","t","i","o","n">>, <<"A","c","t",":">>, <<"W","h","e","n",":">>, <<"E","x","e","c","u","t","e",":">>}
AssertionKeywords ==
    {<<"A","s","s","e","r","t","i","o","n">>, <<"T","h","e","n">>, <<"A","S","S","E","R","T">>, <<"v","a","l","i","d","a","t","e","s">>, <<"v","e","r","i","f","i","e","s">>,
     <<"A","s","s","e","r","t",":">>, <<"T","h","e","n",":">>, <<"V","e","r","i","f","y",":">>}
TestingPrincipleKeywords ==
    {<<"T","e","s","t","i","n","g"," ","P","r","i","n","c","i","p","l","e",":">>, <<"T","e","s","t","i","n","g"," ","P","r","i","n","c","i","p","l","e","s",":">>, <<"T","e","s","t","i","n","g"," ","P","r","i","n","c","i","p","l","e">>,
     <<"T","e","s","t","i","n","g"," ","P","r","i","n","c","i","p","l","e","s">>, <<"P","r","i","n","c","i","p","l","e",":">>, <<"P","r","i","n","c","i","p","l","e","s",":">>, <<"T","e","s","t"," ","R","a","t","i","o","n","a","l","e",":">>,
     <<"V","a","l","i","d","a","t","e","s"," ","t","h","e">>, <<"E","n","s","u","r","e","s"," ","t","h","e">>, <<"E","n","s","u","r","e","s"," ","t","h","a","t">>}

\* PythonAnalyzer._check_test_specific_indicators
_check_test_specific_indicators(cfg, docstring, is_brief_one_liner, is_terse_complete) ==
    LET has_arrangement == \E keyword \in ArrangementKeywords : contains(docstring, keyword)
        has_action == \E keyword \in ActionKeywords : contains(docstring, keyword)
        has_assertion == \E keyword \in AssertionKeywords : contains(docstring, keyword)
        has_testing_principles ==
            \E keyword \in TestingPrincipleKeywords : contains(docstring, keyword)
    IN  << <<<<"a","r","r","a","n","g","e","m","e","n","t","_","s","t","e","p","s">>, has_arrangement /\ ~is_brief_one_liner>>,
           <<<<"a","c","t","i","o","n","_","d","e","s","c","r","i","p","t","i","o","n">>, has_action /\ ~is_brief_one_liner>>,
           <<<<"a","s","s","e","r","t","i","o","n","_","s","t","r","a","t","e","g","y">>, has_assertion /\ ~is_brief_one_liner>>,
           <<<<"t","e","s","t","i","n","g","_","p","r","i","n","c","i","p","l","e","s">>, has_testing_principles>>,
           <<<<"c","o","m","p","r","e","h","e","n","s","i","v","e","_","c","o","n","t","e","n","t">>,
             \/ Len(docstring) > cfg.thresholds.min_comprehensive_chars_test
             \/ /\ is_terse_complete
                /\ Len(docstring) > cfg.thresholds.min_comprehensive_chars_test_terse>> >>

\* PythonAnalyzer._calculate_quality_indicators
_calculate_quality_indicators(cfg, docstring, func_info, is_test_function, is_terse_complete, is_brief_one_liner) ==
    LET lines == split_lines(strip(docstring))
        i1 == DictUpdate(<<>>, _check_brief_and_detailed(cfg, docstring, lines,
                  is_brief_one_liner, is_terse_complete, is_test_function))
        i2 == IF ~is_test_function
              THEN DictUpdate(i1, _check_documentation_sections(docstring))
              ELSE i1
    IN  IF is_test_function
        THEN DictUpdate(i2, _check_test_specific_indicators(cfg, docstring,
                 is_brief_one_liner, is_terse_complete))
        ELSE DictUpdate(i2, _check_context_and_details(cfg, docstring, is_terse_complete))

_is_not_self(arg) == arg.name # <<"s","e","l","f">>

\* variant of _validate_signature_coverage that takes a missing key for a
\* missing section
_validate_signature_coverage_absent_is_false(quality_indicators, func_info) ==
    LET has_params == Len(SelectSeq(func_info.args, _is_not_self)) > 0
        q1 == IF has_params /\ ~DictGet(quality_indicators, <<"a","r","g","s","_","s","e","c","t","i","o","n">>, FALSE)
              THEN DictSet(quality_indicators, <<"a","r","g","s","_","s","e","c","t","i","o","n">>, FALSE)
              ELSE quality_indicators
        has_return == Truthy(func_info.returns) /\ func_info.returns # <<"N","o","n","e">>
    IN  IF has_return /\ ~DictGet(q1, <<"r","e","t","u","r","n","s","_","s","e","c","t","i","o","n">>, FALSE)
        THEN DictSet(q1, <<"r","e","t","u","r","n","s","_","s","e","c","t","i","o","n">>, FALSE)
        ELSE q1

\* PythonAnalyzer._validate_signature_coverage
_validate_signature_coverage(quality_indicators, func_info) ==
    LET has_params == Len(SelectSeq(func_info.args, _is_not_self)) > 0
        q1 == IF has_params /\ ~DictGet(quality_indicators, <<"a","r","g","s","_","s","e","c","t","i","o","n">>, TRUE)
              THEN DictSet(quality_indicators, <<"a","r","g","s","_","s","e","c","t","i","o","n">>, FALSE)
              ELSE quality_indicators
        has_return == Truthy(func_info.returns) /\ func_info.returns # <<"N","o","n","e">>
    IN  IF has_return /\ ~DictGet(q1, <<"r","e","t","u","r","n","s","_","s","e","c","t","i","o","n">>, TRUE)
        THEN DictSet(q1, <<"r","e","t","u","r","n","s","_","s","e","c","t","i","o","n">>, FALSE)
        ELSE q1

\* key.replace("_", " ")
replace_underscores(key) == [i \in 1..Len(key) |-> IF key[i] = "_" THEN " " ELSE key[i]]

_item_is_true(item) == item[2]
_item_is_false(item) == ~item[2]

\* score >= cutoff, the score a fraction and the cutoff in thousandths
ScoreAtLeast(score, cutoff) == score.num * 1000 >= cutoff * score.den

\* score < cutoff
ScoreBelow(score, cutoff) == score.num * 1000 < cutoff * score.den

\* variant of the early-exit test that measures the text without trimming it
_is_minimal_docstring_untrimmed(cfg, docstring) ==
    docstring = <<>> \/ Len(docstring) < cfg.min_docstring_length

\* assess_docstring_quality, line 204: the test of the early exit
_is_minimal_docstring(cfg, docstring) ==
    docstring = <<>> \/ Len(strip(docstring)) < cfg.min_docstring_length

\* variant of the quality level in which the cutoffs are tried before the
\* brief one-liner override
_quality_level_cutoffs_first(cfg, is_brief, score, missing, quality_indicators) ==
    LET thresholds == cfg.quality_thresholds
    IN  IF ScoreAtLeast(score, thresholds.excellent)
        THEN [quality |-> "excellent", score |-> score, missing |-> missing,
              needs_improvement |-> FALSE, indicators |-> quality_indicators]
        ELSE IF is_brief
        THEN [quality |-> "poor", score |-> score,
              missing |-> <<<<"c","o","m","p","r","e","h","e","n","s","i","v","e"," ","c","o","n","t","e","n","t"," ","(","t","o","o"," ","b","r","i","e","f",")">>>> \o missing,
              needs_improvement |-> TRUE, indicators |-> quality_indicators]
        ELSE IF ScoreAtLeast(score, thresholds.good)
        THEN [quality |-> "good", score |-> score, missing |-> missing,
              needs_improvement |-> TRUE, indicators |-> quality_indicators]
        ELSE IF ScoreAtLeast(score, thresholds.basic)
        THEN [quality |-> "basic", score |-> score, missing |-> missing,
              needs_improvement |-> TRUE, indicators |-> quality_indicators]
        ELSE [quality |-> "poor", score |-> score, missing |-> missing,
              needs_improvement |-> TRUE, indicators |-> quality_indicators]

\* variant of the quality level in which a score has to exceed a cutoff to
\* reach its level
_quality_level_strict(cfg, is_brief, score, missing, quality_indicators) ==
    LET thresholds == cfg.quality_thresholds
        above(cutoff) == score.num * 1000 > cutoff * score.den
    IN  IF is_brief
        THEN [quality |-> "poor", score |-> score,
              missing |-> <<<<"c","o","m","p","r","e","h","e","n","s","i","v","e"," ","c","o","n","t","e","n","t"," ","(","t","o","o"," ","b","r","i","e","f",")">>>> \o missing,
              needs_improvement |-> TRUE, indicators |-> quality_indicators]
        ELSE IF above(thresholds.excellent)
        THEN [quality |-> "excellent", score |-> score, missing |-> missing,
              needs_improvement |-> FALSE, indicators |-> quality_indicators]
        ELSE IF above(thresholds.good)
        THEN [quality |-> "good", score |-> score, missing |-> missing,
              needs_improvement |-> TRUE, indicators |-> quality_indicators]
        ELSE IF above(thresholds.basic)
        THEN [quality |-> "basic", score |-> score, missing |-> missing,
              needs_improvement |-> TRUE, indicators |-> quality_indicators]
        ELSE [quality |-> "poor", score |-> score, missing |-> missing,
              needs_improvement |-> TRUE, indicators |-> quality_indicators]

\* variant of the quality level in which a good text needs no improvement
_quality_level_good_enough(cfg, is_brief, score, missing, quality_indicators) ==
    LET thresholds == cfg.quality_thresholds
    IN  IF is_brief
        THEN [quality |-> "poor", score |-> score,
              missing |-> <<<<"c","o","m","p","r","e","h","e","n","s","i","v","e"," ","c","o","n","t","e","n","t"," ","(","t","o","o"," ","b","r","i","e","f",")">>>> \o missing,
              needs_improvement |-> TRUE, indicators |-> quality_indicators]
        ELSE IF ScoreAtLeast(score, thresholds.excellent)
        THEN [quality |-> "excellent", score |-> score, missing |-> missing,
              needs_improvement |-> FALSE, indicators |-> quality_indicators]
        ELSE IF ScoreAtLeast(score, thresholds.good)
        THEN [quality |-> "good", score |-> score, missing |-> missing,
              needs_improvement |-> FALSE, indicators |-> quality_indicators]
        ELSE IF ScoreAtLeast(score, thresholds.basic)
        THEN [quality |-> "basic", score |-> score, missing |-> missing,
              needs_improvement |-> TRUE, indicators |-> quality_indicators]
        ELSE [quality |-> "poor", score |-> score, missing |-> missing,
              needs_improvement |-> TRUE, indicators |-> quality_indicators]

\* assess_docstring_quality, lines 233-260: the quality level and the result
_quality_level(cfg, is_brief, score, missing, quality_indicators) ==
    LET thresholds == cfg.quality_thresholds
    IN  IF is_brief
        THEN [quality |-> "poor", score |-> score,
              missing |-> <<<<"c","o","m","p","r","e","h","e","n","s","i","v","e"," ","c","o","n","t","e","n","t"," ","(","t","o","o"," ","b","r","i","e","f",")">>>> \o missing,
              needs_improvement |-> TRUE, indicators |-> quality_indicators]
        ELSE IF ScoreAtLeast(score, thresholds.excellent)
        THEN [quality |-> "excellent", score |-> score, missing |-> missing,
              needs_improvement |-> FALSE, indicators |-> quality_indicators]
        ELSE IF ScoreAtLeast(score, thresholds.good)
        THEN [quality |-> "good", score |-> score, missing |-> missing,
              needs_improvement |-> TRUE, indicators |-> quality_indicators]
        ELSE IF ScoreAtLeast(score, thresholds.basic)
        THEN [quality |-> "basic", score |-> score, missing |-> missing,
              needs_improvement |-> TRUE, indicators |-> quality_indicators]
        ELSE [quality |-> "poor", score |-> score, missing |-> missing,
              needs_improvement |-> TRUE, indicators |-> quality_indicators]

\* variant of assess_docstring_quality that takes the is_test flag of the
\* descriptor instead of looking at the name
assess_docstring_quality_trusting_flag(cfg, docstring, func_name, func_info) ==
    IF _is_minimal_docstring(cfg, docstring)
    THEN [quality |-> "poor", score |-> [num |-> 0, den |-> 1],
          missing |-> <<<<"d","o","c","s","t","r","i","n","g">>>>, needs_improvement |-> TRUE,
          indicators |-> <<>>]
    ELSE
    LET is_test == func_info.is_test
        is_terse_complete == _detect_terse_notation(cfg, docstring)
        is_brief == _is_brief_one_liner(cfg, docstring, is_terse_complete)
        quality_indicators ==
            _validate_signature_coverage(
                _calculate_quality_indicators(cfg, docstring, func_info, is_test,
                                              is_terse_complete, is_brief),
                func_info)
        score == [num |-> Len(SelectSeq(quality_indicators, _item_is_true)),
                  den |-> Len(quality_indicators)]
        false_items == SelectSeq(quality_indicators, _item_is_false)
        missing == [i \in 1..Len(false_items) |-> replace_underscores(false_items[i][1])]
    IN  _quality_level(cfg, is_brief, score, missing, quality_indicators)

\* variant of assess_docstring_quality that divides by the 8 indicators of an
\* ordinary function whatever the indicator set is
assess_docstring_quality_fixed_total(cfg, docstring, func_name, func_info) ==
    IF _is_minimal_docstring(cfg, docstring)
    THEN [quality |-> "poor", score |-> [num |-> 0, den |-> 1],
          missing |-> <<<<"d","o","c","s","t","r","i","n","g">>>>, needs_improvement |-> TRUE,
          indicators |-> <<>>]
    ELSE
    LET is_test == _is_test_function(func_name)
        is_terse_complete == _detect_terse_notation(cfg, docstring)
        is_brief == _is_brief_one_liner(cfg, docstring, is_terse_complete)
        quality_indicators ==
            _validate_signature_coverage(
                _calculate_quality_indicators(cfg, docstring, func_info, is_test,
                                              is_terse_complete, is_brief),
                func_info)
        score == [num |-> Len(SelectSeq(quality_indicators, _item_is_true)),
                  den |-> 8]
        false_items == SelectSeq(quality_indicators, _item_is_false)
        missing == [i \in 1..Len(false_items) |-> replace_underscores(false_items[i][1])]
    IN  _quality_level(cfg, is_brief, score, missing, quality_indicators)

\* PythonAnalyzer.assess_docstring_quality
assess_docstring_quality(cfg, docstring, func_name, func_info) ==
    IF _is_minimal_docstring(cfg, docstring)
    THEN [quality |-> "poor", score |-> [num |-> 0, den |-> 1],
          missing |-> <<<<"d","o","c","s","t","r","i","n","g">>>>, needs_improvement |-> TRUE,
          indicators |-> <<>>]
    ELSE
    LET is_test == _is_test_function(func_name)
        is_terse_complete == _detect_terse_notation(cfg, docstring)
        is_brief == _is_brief_one_liner(cfg, docstring, is_terse_complete)
        quality_indicators ==
            _validate_signature_coverage(
                _calculate_quality_indicators(cfg, docstring, func_info, is_test,
                                              is_terse_complete, is_brief),
                func_info)
        score == [num |-> Len(SelectSeq(quality_indicators, _item_is_true)),
                  den |-> Len(quality_indicators)]
        false_items == SelectSeq(quality_indicators, _item_is_false)
        missing == [i \in 1..Len(false_items) |-> replace_underscores(false_items[i][1])]
    IN  _quality_level(cfg, is_brief, score, missing, quality_indicators)

\* ---------------------------------------------------------------- priority

\* variant of _calculate_visibility_score with the two values exchanged
_calculate_visibility_score_inverted(func_info) == IF func_info.is_private THEN 3 ELSE 0

\* PythonAnalyzer._calculate_visibility_score
_calculate_visibility_score(func_info) == IF func_info.is_private THEN 0 ELSE 3

\* PythonAnalyzer._calculate_complexity_score
_calculate_complexity_score(cfg, func_info) ==
    IF func_info.complexity > cfg.thresholds.complexity_high THEN 2
    ELSE IF func_info.complexity > cfg.thresholds.complexity_medium THEN 1
    ELSE 0

\* variant of _calculate_signature_score that does not cap the parameter count
_calculate_signature_score_uncapped(cfg, func_info) ==
    Len(SelectSeq(func_info.args, _is_not_self))
    + (IF Truthy(func_info.returns) /\ func_info.returns # <<"N","o","n","e">> THEN 2 ELSE 0)

\* PythonAnalyzer._calculate_signature_score
_calculate_signature_score(cfg, func_info) ==
    LET param_count == Len(SelectSeq(func_info.args, _is_not_self))
        params == IF param_count > 0
                  THEN Min(param_count, cfg.thresholds.max_param_priority_contribution)
                  ELSE 0
    IN  params + (IF Truthy(func_info.returns) /\ func_info.returns # <<"N","o","n","e">>
                  THEN 2 ELSE 0)

\* variant of _calculate_quality_gap_score without the step between 0.6 and 0.8
_calculate_quality_gap_score_two_steps(quality_assessment) ==
    IF ScoreBelow(quality_assessment.score, 300) THEN 3
    ELSE IF ScoreBelow(quality_assessment.score, 600) THEN 2
    ELSE 0

\* PythonAnalyzer._calculate_quality_gap_score: cutoffs 0.3, 0.6, 0.8
_calculate_quality_gap_score(quality_assessment) ==
    IF ScoreBelow(quality_assessment.score, 300) THEN 3
    ELSE IF ScoreBelow(quality_assessment.score, 600) THEN 2
    ELSE IF ScoreBelow(quality_assessment.score, 800) THEN 1
    ELSE 0

\* PythonAnalyzer.calculate_priority
calculate_priority(cfg, func_info, quality_assessment) ==
    _calculate_visibility_score(func_info)
    + _calculate_complexity_score(cfg, func_info)
    + _calculate_signature_score(cfg, func_info)
    + _calculate_quality_gap_score(quality_assessment)

\* -------------------------------------------------------------- parse trees

\* Largest number of nodes of a parse tree the model draws
MaxNodes == 4

\* What the parser records of one function definition (ast.FunctionDef fields and
\* ast.get_docstring of it). Each is the definition named in the comment.
SourceDefs ==
    [process |->       \* def process(data): ...
        [name |-> <<"p","r","o","c","e","s","s">>, args |-> <<<<"d","a","t","a">>>>, returns |-> PyNone,
         docstring |-> <<>>],
     _fetch |->        \* async def _fetch(self, url) -> str: """Fetch it."""
        [name |-> <<"_","f","e","t","c","h">>, args |-> <<<<"s","e","l","f">>, <<"u","r","l">>>>, returns |-> <<"s","t","r">>,
         docstring |-> <<"F","e","t","c","h"," ","i","t",".">>],
     render |->        \* def render(page): with every section documented
        [name |-> <<"r","e","n","d","e","r">>, args |-> <<<<"p","a","g","e">>>>, returns |-> PyNone,
         docstring |-> <<"R","e","n","d","e","r"," ","i","t",".","\n","\n","A","r","g","s",":","\n","R","e","t","u","r","n","s",":","\n","R","a","i","s","e","s",":","\n","E","x","a","m","p","l","e",":","\n","I","t","s"," ","p","u","r","p","o","s","e",".">>],
     _process |->      \* def _process(data): ...
        [name |-> <<"_","p","r","o","c","e","s","s">>, args |-> <<<<"d","a","t","a">>>>, returns |-> PyNone,
         docstring |-> <<>>],
     test_run |->      \* def test_run(data): with the steps of a test documented
        [name |-> <<"t","e","s","t","_","r","u","n">>, args |-> <<<<"d","a","t","a">>>>, returns |-> PyNone,
         docstring |-> <<"C","h","e","c","k"," ","r","u","n",".","\n","A","r","r","a","n","g","e",":"," ","x","."," ","A","c","t",":"," ","y","."," ","A","s","s","e","r","t",":"," ","z",".","\n","T","e","s","t","i","n","g"," ","P","r","i","n","c","i","p","l","e","s",":"," ","i","s","o","l","a","t","e"," ","e","a","c","h"," ","c","a","s","e",".">>],
     _test_run |->     \* def _test_run(data): the same text
        [name |-> <<"_","t","e","s","t","_","r","u","n">>, args |-> <<<<"d","a","t","a">>>>, returns |-> PyNone,
         docstring |-> <<"C","h","e","c","k"," ","r","u","n",".","\n","A","r","r","a","n","g","e",":"," ","x","."," ","A","c","t",":"," ","y","."," ","A","s","s","e","r","t",":"," ","z",".","\n","T","e","s","t","i","n","g"," ","P","r","i","n","c","i","p","l","e","s",":"," ","i","s","o","l","a","t","e"," ","e","a","c","h"," ","c","a","s","e",".">>],
     _tidy |->         \* def _tidy(self): every section named on one line
        [name |-> <<"_","t","i","d","y">>, args |-> <<<<"s","e","l","f">>>>, returns |-> PyNone,
         docstring |-> <<"A","r","g","s",":"," ","R","e","t","u","r","n","s",":"," ","R","a","i","s","e","s",":"," ","E","x","a","m","p","l","e",":"," ","p","u","r","p","o","s","e">>],
     _helper |->       \* def _helper(self): every section, the brief not capitalized
        [name |-> <<"_","h","e","l","p","e","r">>, args |-> <<<<"s","e","l","f">>>>, returns |-> PyNone,
         docstring |-> <<"r","e","n","d","e","r"," ","i","t",".","\n","\n","A","r","g","s",":","\n","R","e","t","u","r","n","s",":","\n","R","a","i","s","e","s",":","\n","E","x","a","m","p","l","e",":","\n","I","t","s"," ","p","u","r","p","o","s","e",".">>]]

\* The node types the model draws below the Module root, with the definition a
\* function node carries ("-" for the other nodes)
NodeChoices ==
    {[kind |-> "If", def |-> "-"],
     [kind |-> "ClassDef", def |-> "-"],
     [kind |-> "FunctionDef", def |-> "process"],
     [kind |-> "AsyncFunctionDef", def |-> "_fetch"],
     [kind |-> "FunctionDef", def |-> "render"]}

\* A tree: node 1 is the Module, parent[i] < i is the parent of node i. Nodes
\* are numbered in source order (the order of their line numbers), so a new
\* node hangs under the last node or under one of its ancestors, and the
\* children of a node are in increasing order of their number.
EmptyTree == [parent |-> <<0>>, node |-> <<[kind |-> "Module", def |-> "-"]>>]

RECURSIVE AncestorsOrSelf(_, _)
AncestorsOrSelf(tree, n) ==
    IF n = 0 THEN {} ELSE {n} \cup AncestorsOrSelf(tree, tree.parent[n])

Grow(tree) ==
    {[parent |-> Append(tree.parent, q), node |-> Append(tree.node, c)] :
        q \in AncestorsOrSelf(tree, Len(tree.parent)), c \in NodeChoices}

RECURSIVE TreesOfSize(_)
TreesOfSize(n) ==
    IF n = 1 THEN {EmptyTree} ELSE UNION {Grow(t) : t \in TreesOfSize(n - 1)}

Trees == UNION {TreesOfSize(n) : n \in 1..MaxNodes}

\* ast.iter_child_nodes(node), in field order
iter_child_nodes(tree, n) ==
    SelectSeq([i \in 1..Len(tree.parent) |-> i], LAMBDA i : tree.parent[i] = n)

\* ast.walk: todo = deque([node]); popleft, extend with the children, yield
RECURSIVE walk_todo(_, _)
walk_todo(tree, todo) ==
    IF todo = <<>> THEN <<>>
    ELSE <<Head(todo)>> \o walk_todo(tree, Tail(todo) \o iter_child_nodes(tree, Head(todo)))

walk(tree, n) == walk_todo(tree, <<n>>)

\* PythonAnalyzer._check_ast_depth: TRUE when it raises ValueError
\* variant of _check_ast_depth that also refuses a node at exactly max_depth
RECURSIVE _check_ast_depth_inclusive(_, _, _, _)
_check_ast_depth_inclusive(tree, n, max_depth, current_depth) ==
    \/ current_depth >= max_depth
    \/ \E child \in {i \in 1..Len(tree.parent) : tree.parent[i] = n} :
           _check_ast_depth_inclusive(tree, child, max_depth, current_depth + 1)

RECURSIVE _check_ast_depth(_, _, _, _)
_check_ast_depth(tree, n, max_depth, current_depth) ==
    \/ current_depth > max_depth
    \/ \E child \in {i \in 1..Len(tree.parent) : tree.parent[i] = n} :
           _check_ast_depth(tree, child, max_depth, current_depth + 1)

\* PythonAnalyzer._validate_ast_depth: the error dict, or <<>> for None
_validate_ast_depth(cfg, tree) ==
    IF _check_ast_depth(tree, 1, cfg.max_ast_depth, 0)
    THEN [error |-> "AST depth exceeds maximum"]
    ELSE [error |-> ""]

BranchingTypes == {"If", "While", "For", "AsyncFor", "ExceptHandler", "And", "Or",
                   "comprehension"}

\* variant of _calculate_complexity that stops at a nested function definition
_calculate_complexity_own_body(tree, n) ==
    1 + Len(SelectSeq(walk(tree, n), LAMBDA child :
                /\ tree.node[child].kind \in BranchingTypes
                /\ \A a \in AncestorsOrSelf(tree, child) \ AncestorsOrSelf(tree, n) :
                       tree.node[a].kind \notin {"FunctionDef", "AsyncFunctionDef"}))

\* PythonAnalyzer._calculate_complexity
_calculate_complexity(tree, n) ==
    1 + Len(SelectSeq(walk(tree, n), LAMBDA child : tree.node[child].kind \in BranchingTypes))

\* PythonAnalyzer._extract_function_info
_extract_function_info(tree, n) ==
    LET d == SourceDefs[tree.node[n].def]
    IN  [name |-> d.name,
         line |-> n,
         complexity |-> _calculate_complexity(tree, n),
         is_private |-> startswith(d.name, <<"_">>),
         is_test |-> _is_test_function(d.name),
         args |-> [i \in 1..Len(d.args) |->
                      [name |-> d.args[i], type_annotation |-> PyNone,
                       default |-> PyNone]],
         returns |-> d.returns,
         decorators |-> <<>>,
         current_docstring |-> d.docstring]

\* variant of the isinstance test that forgets ast.AsyncFunctionDef
IsFunctionNode_sync_only(tree, n) == tree.node[n].kind = "FunctionDef"

IsFunctionNode(tree, n) == tree.node[n].kind \in {"FunctionDef", "AsyncFunctionDef"}

\* one pass of the loop body of _extract_functions_needing_improvement
_analyze_node(cfg, tree, n, file_path) ==
    LET func_info == _extract_function_info(tree, n)
        docstring == SourceDefs[tree.node[n].def].docstring
        quality == assess_docstring_quality(cfg, docstring, func_info.name, func_info)
    IN  IF quality.needs_improvement
        THEN <<[function_name |-> func_info.name,
                line_number |-> func_info.line,
                file_path |-> file_path,
                current_docstring |-> docstring,
                quality_assessment |-> quality,
                function_info |-> func_info,
                priority |-> calculate_priority(cfg, func_info, quality)]>>
        ELSE <<>>

RECURSIVE _extract_from(_, _, _, _)
_extract_from(cfg, tree, nodes, file_path) ==
    IF nodes = <<>> THEN <<>>
    ELSE (IF IsFunctionNode(tree, Head(nodes))
          THEN _analyze_node(cfg, tree, Head(nodes), file_path)
          ELSE <<>>)
         \o _extract_from(cfg, tree, Tail(nodes), file_path)

\* PythonAnalyzer._extract_functions_needing_improvement
_extract_functions_needing_improvement(cfg, tree, file_path) ==
    _extract_from(cfg, tree, walk(tree, 1), file_path)

\* variant of the sort that is not stable: of the items of highest priority
\* the last one comes first
RECURSIVE _sort_by_priority_unstable(_)
_sort_by_priority_unstable(functions) ==
    IF functions = <<>> THEN <<>>
    ELSE LET k == CHOOSE i \in 1..Len(functions) :
                      /\ \A j \in 1..Len(functions) :
                             functions[j].priority <= functions[i].priority
                      /\ \A j \in (i + 1)..Len(functions) :
                             functions[j].priority < functions[i].priority
         IN  <<functions[k]>>
             \o _sort_by_priority_unstable(SubSeq(functions, 1, k - 1)
                                           \o SubSeq(functions, k + 1, Len(functions)))

\* sorted(functions, key=priority, reverse=True): stable, so of the items of
\* highest priority the first one comes first
RECURSIVE _sort_by_priority(_)
_sort_by_priority(functions) ==
    IF functions = <<>> THEN <<>>
    ELSE LET k == CHOOSE i \in 1..Len(functions) :
                      /\ \A j \in 1..Len(functions) :
                             functions[j].priority <= functions[i].priority
                      /\ \A j \in 1..(i - 1) :
                             functions[j].priority < functions[i].priority
         IN  <<functions[k]>>
             \o _sort_by_priority(SubSeq(functions, 1, k - 1)
                                  \o SubSeq(functions, k + 1, Len(functions)))

\* ------------------------------------------- the server, the installer, paths

VARIABLES
    stdin,              \* the server: the lines sys.stdin.readline has yet to return
    stdout,             \*   the responses run printed, in order
    s_pc,               \*   where run is: "unused", "reading" (awaiting a line),
                        \*   "analyzing" (inside analyzer.analyze) or "stopped"
    s_read,             \*   the lines readline returned so far
    s_message,          \*   the message of the last handle_message call
    s_outcome,          \*   how that call ended: with a response or with an exception
    s_break,            \*   why run stopped: "none", "eof", "exception" (the break
                        \*   of line 453) or "crash" (an exception outside the loop)
    mcp_file,           \* the installer: the mcp.json file
    mcp_before,         \*   the file before the last install_mcp or uninstall_mcp
    mcp_calls,          \*   the calls made so far, each with its outcome
    fs_links,           \* path validation: the symbolic links of the filesystem
    fs_path,            \*   the user-provided path of the last validation
    fs_outcome          \*   what validate_workspace_boundary did with it

server_vars == <<stdin, stdout, s_pc, s_read, s_message, s_outcome, s_break>>

installer_vars == <<mcp_file, mcp_before, mcp_calls>>

validator_vars == <<fs_links, fs_path, fs_outcome>>

tools_vars == <<server_vars, installer_vars, validator_vars>>

\* a key that a JSON object does not have
Absent == <<"<absent>">>

\* dict.get(key, default), on the value found under the key
get(value, default) == IF value = Absent THEN default ELSE value

\* JSON values: a string, a number, null and some array
JStr(s) == <<"str", s>>

JNum(s) == <<"number", s>>

JNull == <<"null">>

JArray == <<"array">>

\* no "code" key
NoCode == [type |-> "absent", size |-> 0, parse |-> "ok", tree |-> EmptyTree]

\* no "arguments" key, no "params" key
NoArguments ==
    [shape |-> "absent", code |-> NoCode, language |-> Absent, file_path |-> Absent]

NoParams == [shape |-> "absent", name |-> Absent, arguments |-> NoArguments]

\* no message handled yet
NoMessage == [shape |-> "none", method |-> Absent, id |-> Absent, params |-> NoParams]

\* no mcp.json
MissingFile ==
    [exists |-> FALSE, valid |-> FALSE, layout |-> "none",
     value |-> [shape |-> "none", items |-> <<>>]]

NoOutcome == [kind |-> "none", path |-> <<>>, message |-> ""]

NoPath == [absolute |-> FALSE, parts |-> <<>>]

ServerUnused ==
    /\ stdin = <<>>
    /\ stdout = <<>>
    /\ s_pc = "unused"
    /\ s_read = <<>>
    /\ s_message = NoMessage
    /\ s_outcome = [kind |-> "none"]
    /\ s_break = "none"

InstallerUnused ==
    /\ mcp_file = MissingFile
    /\ mcp_before = MissingFile
    /\ mcp_calls = <<>>

ValidatorUnused ==
    /\ fs_links = <<>>
    /\ fs_path = NoPath
    /\ fs_outcome = NoOutcome

ToolsUnused ==
    /\ ServerUnused
    /\ InstallerUnused
    /\ ValidatorUnused

\* ---------------------------------------------------------------- pipeline

VARIABLES
    config,             \* the analyzer's AnalysisConfig (self.config)
    sigalrm_available,  \* whether signal.signal(SIGALRM, ...) works here
    sig_handler,        \* process-wide: the handler installed for SIGALRM
    alarm_pending,      \* process-wide: an alarm is armed and has not fired
    pc,                 \* where the main thread is: "idle" (the caller's code), a step
                        \* of analyze, or "returned" (the caller holds the outcome)
    code,               \* analyze's argument code
    file_path,          \* analyze's argument file_path
    old_handler,        \* _parse_with_timeout's local old_handler
    handler_before,     \* the handler installed when _parse_with_timeout was entered
    parse_exit,         \* how _parse_with_timeout left, in the current call
    parser_invoked,     \* ast.parse was called in the current call
    functions,          \* analyze's local functions (discovery order)
    result,             \* the list the last call returned
    raised,             \* the exception the last call let through, or "none"
    logged,             \* the current call logged a path-traversal warning
    caller_interrupted, \* TimeoutError was raised in the caller's code, after a call
    a_pc,               \* a direct use of the assessor and the scorer: its position,
    a_config,           \*   the configuration of the analyzer it is made on,
    a_docstring,        \*   and the arguments docstring,
    a_func_name,        \*   func_name
    a_func_info,        \*   and func_info;
    a_quality,          \*   what assess_docstring_quality returned
    a_priority          \*   and what calculate_priority returned for it

pipeline_vars == <<config, sigalrm_available, sig_handler, alarm_pending, pc, code,
                   file_path, old_handler, handler_before, parse_exit, parser_invoked,
                   functions, result, raised, logged, caller_interrupted>>

assess_vars == <<a_pc, a_config, a_docstring, a_func_name, a_func_info, a_quality,
                 a_priority>>

vars == <<pipeline_vars, assess_vars, tools_vars>>

\* A value that is not a str, as tests/test_analyzer.py passes (123)
PyInt == <<"<int>">>

isinstance_str(v) == v # PyInt /\ v # PyNone

\* The thresholds the pipeline runs with: AnalysisConfig(**overrides), scaled to
\* the short texts of SourceDefs
SmallThresholds ==
    QualityThresholds(
        [min_brief_chars |-> 20,
         min_detailed_lines_standard |-> 3, min_detailed_lines_test |-> 4,
         min_detailed_chars_standard |-> 30, min_detailed_chars_test |-> 40,
         min_comprehensive_chars_standard |-> 40,
         min_comprehensive_chars_standard_terse |-> 20,
         min_comprehensive_chars_test |-> 50, min_comprehensive_chars_test_terse |-> 25,
         complexity_medium |-> 1, complexity_high |-> 2])

SmallConfig ==
    AnalysisConfig(
        [thresholds |-> SmallThresholds,
         max_code_size |-> 100, min_docstring_length |-> 3,
         max_ast_depth |-> 2, ast_parse_timeout |-> 1, max_file_path_length |-> 4])

Configs == {SmallConfig}

\* Source texts. A text's characters are not modelled, only its length, what
\* ast.parse does with it and the tree it yields.
CodeInputs(cfg) ==
    {[type |-> "NoneType", size |-> 0, parse |-> "ok", tree |-> EmptyTree]}
    \cup {[type |-> "str", size |-> n, parse |-> "ok", tree |-> EmptyTree] :
             n \in {0, cfg.max_code_size - 1, cfg.max_code_size + 1}}
    \cup {[type |-> "str", size |-> cfg.max_code_size, parse |-> p, tree |-> EmptyTree] :
             p \in {"SyntaxError", "ValueError"}}
    \cup {[type |-> "str", size |-> cfg.max_code_size, parse |-> "ok", tree |-> t] :
             t \in Trees}

\* File identifiers: "", one as long as SmallConfig allows, one longer, one with
\* a null byte, the two traversal patterns, a value that is no str, and a
\* traversal pattern with a null byte and in an identifier that is too long
PathInputs ==
    {<<>>, <<"a",".","p","y">>, <<"a","b",".","p","y">>, <<"a", NUL, "b">>, <<".",".","/","a">>, <<".",".","\\","a">>, PyInt,
     <<".", ".", "/", NUL>>, <<".",".","/","a","b">>}

\* The calls the model makes: every file identifier with every source that
\* holds no function, and every source with a plain and a traversal identifier
CallInputs(cfg) ==
    ({c \in CodeInputs(cfg) : c.tree = EmptyTree} \X PathInputs)
    \cup (CodeInputs(cfg) \X {<<"a",".","p","y">>, <<".",".","/","a">>})

error_list(message) == <<[error |-> message]>>

\* variant of _validate_file_path that refuses a traversal pattern
_validate_file_path_refusing_traversal(cfg, path) ==
    IF ~isinstance_str(path) THEN "file_path must be string"
    ELSE IF Len(path) > cfg.max_file_path_length THEN "file_path too long"
    ELSE IF contains(path, <<NUL>>) THEN "file_path contains null byte"
    ELSE IF contains(path, <<".",".","/">>) \/ contains(path, <<".",".","\\">>)
    THEN "file_path contains traversal"
    ELSE "none"

\* PythonAnalyzer._validate_file_path: the exception it raises, or "none"
_validate_file_path(cfg, path) ==
    IF ~isinstance_str(path) THEN "file_path must be string"
    ELSE IF Len(path) > cfg.max_file_path_length THEN "file_path too long"
    ELSE IF contains(path, <<NUL>>) THEN "file_path contains null byte"
    ELSE "none"

\* the warning _validate_file_path logs when it raises nothing
_logs_traversal(cfg, path) ==
    /\ _validate_file_path(cfg, path) = "none"
    /\ contains(path, <<".",".","/">>) \/ contains(path, <<".",".","\\">>)

\* variant of _validate_code_security that collects every failed check
\* instead of returning at the first one
_validate_code_security_collecting(cfg, c, path) ==
    (IF c.size > cfg.max_code_size THEN error_list("Code too large") ELSE <<>>)
    \o (IF _validate_file_path(cfg, path) # "none"
        THEN error_list(_validate_file_path(cfg, path))
        ELSE <<>>)

\* PythonAnalyzer._validate_code_security: the error list, or <<>> for None.
\* Not defined for a code that has no len(): Validate handles that case.
_validate_code_security(cfg, c, path) ==
    IF c.size > cfg.max_code_size THEN error_list("Code too large")
    ELSE IF _validate_file_path(cfg, path) # "none"
         THEN error_list(_validate_file_path(cfg, path))
         ELSE <<>>

\* no assessment made
NoQuality ==
    [quality |-> "none", score |-> [num |-> 0, den |-> 1], missing |-> <<>>,
     needs_improvement |-> FALSE, indicators |-> <<>>]

NoFuncInfo ==
    [name |-> <<>>, line |-> 0, complexity |-> 1, is_private |-> FALSE,
     is_test |-> FALSE, args |-> <<>>, returns |-> PyNone, decorators |-> <<>>,
     current_docstring |-> <<>>]

AssessorUnused ==
    /\ a_pc = "unused"
    /\ a_config = SmallConfig
    /\ a_docstring = <<>>
    /\ a_func_name = <<>>
    /\ a_func_info = NoFuncInfo
    /\ a_quality = NoQuality
    /\ a_priority = 0

PipelineIdle ==
    /\ sig_handler = "SIG_DFL"
    /\ alarm_pending = FALSE
    /\ pc = "idle"
    /\ code = [type |-> "str", size |-> 0, parse |-> "ok", tree |-> EmptyTree]
    /\ file_path = <<>>
    /\ old_handler = "None"
    /\ handler_before = "SIG_DFL"
    /\ parse_exit = "none"
    /\ parser_invoked = FALSE
    /\ functions = <<>>
    /\ result = <<>>
    /\ raised = "none"
    /\ logged = FALSE
    /\ caller_interrupted = FALSE

Init ==
    /\ config \in Configs
    /\ sigalrm_available \in BOOLEAN
    /\ PipelineIdle
    /\ ToolsUnused
    /\ AssessorUnused

\* The caller calls analyzer.analyze(c, p)
Call(c, p) ==
    /\ pc' = "validate"
    /\ code' = c
    /\ file_path' = p
    /\ caller_interrupted' = FALSE
    /\ UNCHANGED assess_vars
    /\ UNCHANGED tools_vars
    /\ UNCHANGED <<config, sigalrm_available, sig_handler, alarm_pending, old_handler,
                   handler_before, parse_exit, parser_invoked, functions, result,
                   raised, logged>>

\* analyze, lines 139-142: the security validation, outside the try block.
\* len(code) raises TypeError for a code without len().
Validate ==
    /\ pc = "validate"
    /\ IF code.type # "str"
       THEN /\ raised' = "TypeError"
            /\ pc' = "returned"
            /\ UNCHANGED <<result, logged>>
       ELSE /\ result' = _validate_code_security(config, code, file_path)
            /\ logged' = (code.size <= config.max_code_size
                          /\ _logs_traversal(config, file_path))
            /\ pc' = IF _validate_code_security(config, code, file_path) # <<>>
                     THEN "returned" ELSE "parse"
            /\ UNCHANGED raised
    /\ UNCHANGED assess_vars
    /\ UNCHANGED tools_vars
    /\ UNCHANGED <<config, sigalrm_available, sig_handler, alarm_pending, code,
                   file_path, old_handler, handler_before, parse_exit,
                   parser_invoked, functions, caller_interrupted>>

\* _parse_with_timeout, lines 416-425: install the handler, arm the alarm and
\* enter ast.parse. signal.signal raises where SIGALRM is not available, and
\* then nothing is installed or armed; signal.alarm(0) arms nothing.
ParseStart ==
    /\ pc = "parse"
    /\ pc' = "parsing"
    /\ handler_before' = sig_handler
    /\ parser_invoked' = TRUE
    /\ IF sigalrm_available
       THEN /\ old_handler' = sig_handler
            /\ sig_handler' = "timeout_handler"
            /\ alarm_pending' = (config.ast_parse_timeout > 0)
       ELSE /\ old_handler' = "None"
            /\ UNCHANGED <<sig_handler, alarm_pending>>
    /\ UNCHANGED assess_vars
    /\ UNCHANGED tools_vars
    /\ UNCHANGED <<config, sigalrm_available, code, file_path, parse_exit, functions,
                   result, raised, logged, caller_interrupted>>

\* ast.parse returns a tree: lines 427-435 cancel the alarm, put the old
\* handler back and return the tree.
ParseReturnsTree ==
    /\ pc = "parsing"
    /\ code.parse = "ok"
    /\ pc' = "depth"
    /\ parse_exit' = "tree"
    /\ IF sigalrm_available
       THEN /\ alarm_pending' = FALSE
            /\ sig_handler' = IF old_handler # "None" THEN old_handler ELSE sig_handler
       ELSE UNCHANGED <<sig_handler, alarm_pending>>
    /\ UNCHANGED assess_vars
    /\ UNCHANGED tools_vars
    /\ UNCHANGED <<config, sigalrm_available, code, file_path, old_handler,
                   handler_before, parser_invoked, functions, result, raised, logged,
                   caller_interrupted>>

\* ast.parse raises SyntaxError: line 439-440 returns the error dict, and
\* analyze (147-148) returns it in a list. Lines 427-433 are skipped.
ParseSyntaxError ==
    /\ pc = "parsing"
    /\ code.parse = "SyntaxError"
    /\ pc' = "returned"
    /\ parse_exit' = "syntax"
    /\ result' = error_list("Syntax error")
    /\ UNCHANGED assess_vars
    /\ UNCHANGED tools_vars
    /\ UNCHANGED <<config, sigalrm_available, sig_handler, alarm_pending, code,
                   file_path, old_handler, handler_before, parser_invoked, functions,
                   raised, logged, caller_interrupted>>

\* ast.parse raises another exception (ValueError for a source with a null
\* byte, RecursionError, MemoryError): _parse_with_timeout lets it through and
\* analyze's except (161-162) returns it as an error list.
ParseOtherException ==
    /\ pc = "parsing"
    /\ code.parse = "ValueError"
    /\ pc' = "returned"
    /\ parse_exit' = "exception"
    /\ result' = error_list("Failed to analyze code")
    /\ UNCHANGED assess_vars
    /\ UNCHANGED tools_vars
    /\ UNCHANGED <<config, sigalrm_available, sig_handler, alarm_pending, code,
                   file_path, old_handler, handler_before, parser_invoked, functions,
                   raised, logged, caller_interrupted>>

\* SIGALRM is delivered: the installed timeout_handler raises TimeoutError in
\* whatever the main thread is running.
AlarmFires ==
    /\ alarm_pending
    /\ sig_handler = "timeout_handler"
    /\ alarm_pending' = FALSE
    /\ CASE pc \in {"idle", "returned"} ->
              \* after analyze returned: the caller's own code is interrupted
              /\ caller_interrupted' = TRUE
              /\ UNCHANGED <<pc, parse_exit, result, raised>>
         [] pc = "validate" ->
              \* before analyze's try block: the exception leaves analyze
              /\ raised' = "TimeoutError"
              /\ pc' = "returned"
              /\ UNCHANGED <<parse_exit, result, caller_interrupted>>
         [] pc = "parsing" ->
              \* inside _parse_with_timeout's try block: lines 437-438
              /\ result' = error_list("Parse timeout")
              /\ parse_exit' = "timeout"
              /\ pc' = "returned"
              /\ UNCHANGED <<raised, caller_interrupted>>
         [] OTHER ->
              \* elsewhere inside analyze's try block: lines 161-162
              /\ result' = error_list("Failed to analyze code")
              /\ pc' = "returned"
              /\ UNCHANGED <<parse_exit, raised, caller_interrupted>>
    /\ UNCHANGED assess_vars
    /\ UNCHANGED tools_vars
    /\ UNCHANGED <<config, sigalrm_available, sig_handler, code, file_path,
                   old_handler, handler_before, parser_invoked, functions, logged>>

\* The caller is done with the outcome of the call and runs its own code
CallerResumes ==
    /\ pc = "returned"
    /\ pc' = "idle"
    /\ code' = [type |-> "str", size |-> 0, parse |-> "ok", tree |-> EmptyTree]
    /\ file_path' = <<>>
    /\ old_handler' = "None"
    /\ handler_before' = "SIG_DFL"
    /\ parse_exit' = "none"
    /\ parser_invoked' = FALSE
    /\ functions' = <<>>
    /\ result' = <<>>
    /\ raised' = "none"
    /\ logged' = FALSE
    /\ UNCHANGED assess_vars
    /\ UNCHANGED tools_vars
    /\ UNCHANGED <<config, sigalrm_available, sig_handler, alarm_pending,
                   caller_interrupted>>

\* analyze, lines 150-153: the depth validation
DepthCheck ==
    /\ pc = "depth"
    /\ IF _validate_ast_depth(config, code.tree).error # ""
       THEN /\ result' = <<_validate_ast_depth(config, code.tree)>>
            /\ pc' = "returned"
       ELSE /\ pc' = "extract"
            /\ UNCHANGED result
    /\ UNCHANGED assess_vars
    /\ UNCHANGED tools_vars
    /\ UNCHANGED <<config, sigalrm_available, sig_handler, alarm_pending, code,
                   file_path, old_handler, handler_before, parse_exit,
                   parser_invoked, functions, raised, logged, caller_interrupted>>

\* analyze, line 156
Extract ==
    /\ pc = "extract"
    /\ functions' = _extract_functions_needing_improvement(config, code.tree, file_path)
    /\ pc' = "sort"
    /\ UNCHANGED assess_vars
    /\ UNCHANGED tools_vars
    /\ UNCHANGED <<config, sigalrm_available, sig_handler, alarm_pending, code,
                   file_path, old_handler, handler_before, parse_exit,
                   parser_invoked, result, raised, logged, caller_interrupted>>

\* analyze, line 159
Sort ==
    /\ pc = "sort"
    /\ result' = _sort_by_priority(functions)
    /\ pc' = "returned"
    /\ UNCHANGED assess_vars
    /\ UNCHANGED tools_vars
    /\ UNCHANGED <<config, sigalrm_available, sig_handler, alarm_pending, code,
                   file_path, old_handler, handler_before, parse_exit,
                   parser_invoked, functions, raised, logged, caller_interrupted>>

Next ==
    \/ /\ pc = "idle"
       /\ \E in \in CallInputs(config) : Call(in[1], in[2])
    \/ Validate
    \/ ParseStart
    \/ ParseReturnsTree
    \/ ParseSyntaxError
    \/ ParseOtherException
    \/ AlarmFires
    \/ DepthCheck
    \/ Extract
    \/ Sort
    \/ CallerResumes

Spec == Init /\ [][Next]_vars

\* ------------------------------ the pipeline on sources with named pairs

\* A configuration whose excellent cutoff only a complete text reaches
StrictConfig ==
    AnalysisConfig(
        [thresholds |-> SmallThresholds,
         quality_thresholds |-> [excellent |-> 900, good |-> 600, basic |-> 300],
         max_code_size |-> 100, min_docstring_length |-> 3,
         max_ast_depth |-> 2, ast_parse_timeout |-> 1, max_file_path_length |-> 4])

PairConfigs == {SmallConfig, StrictConfig}

\* The definitions the sources of pairs hold
PairDefs == {"process", "_process", "test_run", "_test_run", "render"}

\* Sources with two function definitions at the top level, their bodies
\* without a branch or with an if statement each
PairTrees ==
    {[parent |-> <<0, 1, 1>>,
      node |-> <<[kind |-> "Module", def |-> "-"],
                 [kind |-> "FunctionDef", def |-> x],
                 [kind |-> "FunctionDef", def |-> y]>>] : x, y \in PairDefs}
    \cup {[parent |-> <<0, 1, 2, 1, 4>>,
           node |-> <<[kind |-> "Module", def |-> "-"],
                      [kind |-> "FunctionDef", def |-> x],
                      [kind |-> "If", def |-> "-"],
                      [kind |-> "FunctionDef", def |-> y],
                      [kind |-> "If", def |-> "-"]>>] : x, y \in PairDefs}

\* The calls made: the sources of pairs, and the sources that do not parse
PairInputs(cfg) ==
    ({[type |-> "str", size |-> cfg.max_code_size, parse |-> "ok", tree |-> t] :
         t \in PairTrees}
     \cup {c \in CodeInputs(cfg) : c.parse # "ok"})
    \X {<<"a",".","p","y">>}

InitPair ==
    /\ config \in PairConfigs
    /\ sigalrm_available \in BOOLEAN
    /\ PipelineIdle
    /\ ToolsUnused
    /\ AssessorUnused

NextPair ==
    \/ /\ pc = "idle"
       /\ \E in \in PairInputs(config) : Call(in[1], in[2])
    \/ Validate
    \/ ParseStart
    \/ ParseReturnsTree
    \/ ParseSyntaxError
    \/ ParseOtherException
    \/ AlarmFires
    \/ DepthCheck
    \/ Extract
    \/ Sort
    \/ CallerResumes

SpecPair == InitPair /\ [][NextPair]_vars


\* ------------------------------ the pipeline on sources with branching bodies

\* Largest number of nodes below the outer function definition
MaxBodyNodes == 2

\* The limits of SmallConfig with room for a nested body
DeepConfig ==
    AnalysisConfig(
        [thresholds |-> SmallThresholds,
         max_code_size |-> 100, min_docstring_length |-> 3,
         max_ast_depth |-> 5, ast_parse_timeout |-> 1, max_file_path_length |-> 4])

\* The node types of a body: the branching types, a conditional expression and
\* a try statement (neither is counted), and a nested function definition
BodyChoices ==
    {[kind |-> k, def |-> "-"] : k \in BranchingTypes \cup {"IfExp", "Try"}}
    \cup {[kind |-> "FunctionDef", def |-> "_process"]}

\* def process(data): ... at the top level of the module
OuterFunction ==
    [parent |-> <<0, 1>>,
     node |-> <<[kind |-> "Module", def |-> "-"],
                [kind |-> "FunctionDef", def |-> "process"]>>]

GrowBody(tree) ==
    {[parent |-> Append(tree.parent, q), node |-> Append(tree.node, c)] :
        q \in AncestorsOrSelf(tree, Len(tree.parent)), c \in BodyChoices}

RECURSIVE BodiesOfSize(_)
BodiesOfSize(n) ==
    IF n = 0 THEN {OuterFunction} ELSE UNION {GrowBody(t) : t \in BodiesOfSize(n - 1)}

BodyTrees == UNION {BodiesOfSize(n) : n \in 0..MaxBodyNodes}

\* The calls made: the sources with bodies, and the sources that do not parse
BodyInputs(cfg) ==
    ({[type |-> "str", size |-> cfg.max_code_size, parse |-> "ok", tree |-> t] :
         t \in BodyTrees}
     \cup {c \in CodeInputs(cfg) : c.parse # "ok"})
    \X {<<"a",".","p","y">>}

InitBody ==
    /\ config = DeepConfig
    /\ sigalrm_available \in BOOLEAN
    /\ PipelineIdle
    /\ ToolsUnused
    /\ AssessorUnused

NextBody ==
    \/ /\ pc = "idle"
       /\ \E in \in BodyInputs(config) : Call(in[1], in[2])
    \/ Validate
    \/ ParseStart
    \/ ParseReturnsTree
    \/ ParseSyntaxError
    \/ ParseOtherException
    \/ AlarmFires
    \/ DepthCheck
    \/ Extract
    \/ Sort
    \/ CallerResumes

SpecBody == InitBody /\ [][NextBody]_vars

\* ------------------------- the pipeline under default and other thresholds

\* Thresholds that ask nothing of the detail of an ordinary function
LenientConfig ==
    AnalysisConfig([thresholds |->
        QualityThresholds([min_detailed_lines_standard |-> 0,
                           min_detailed_chars_standard |-> 0,
                           min_comprehensive_chars_standard |-> 0])])

\* The default configuration, the lenient one (both with the excellent cutoff
\* 0.8), and the strict one (excellent cutoff 0.9)
GapConfigs == {DEFAULT_CONFIG, LenientConfig, StrictConfig}

\* Sources with one function definition at the top level, its body without a
\* branch or with an if statement
GapTrees ==
    {[parent |-> <<0, 1>>,
      node |-> <<[kind |-> "Module", def |-> "-"],
                 [kind |-> "FunctionDef", def |-> x]>>] : x \in DOMAIN SourceDefs}
    \cup {[parent |-> <<0, 1, 2>>,
           node |-> <<[kind |-> "Module", def |-> "-"],
                      [kind |-> "FunctionDef", def |-> x],
                      [kind |-> "If", def |-> "-"]>>] : x \in DOMAIN SourceDefs}

\* The calls made: these sources, and the sources that do not parse
GapInputs(cfg) ==
    ({[type |-> "str", size |-> cfg.max_code_size, parse |-> "ok", tree |-> t] :
         t \in GapTrees}
     \cup {c \in CodeInputs(cfg) : c.parse # "ok"})
    \X {<<"a",".","p","y">>}

InitGap ==
    /\ config \in GapConfigs
    /\ sigalrm_available \in BOOLEAN
    /\ PipelineIdle
    /\ ToolsUnused
    /\ AssessorUnused

NextGap ==
    \/ /\ pc = "idle"
       /\ \E in \in GapInputs(config) : Call(in[1], in[2])
    \/ Validate
    \/ ParseStart
    \/ ParseReturnsTree
    \/ ParseSyntaxError
    \/ ParseOtherException
    \/ AlarmFires
    \/ DepthCheck
    \/ Extract
    \/ Sort
    \/ CallerResumes

SpecGap == InitGap /\ [][NextGap]_vars
\* ------------------------------------------- the assessor, used directly

\* Longest documentation text the model draws
MaxDocLen == 4

\* The characters the documentation texts are drawn from: a capital and a
\* small letter, the period, the line break, the blank, a bullet marker and a
\* mark of technical notation
DocAlphabet == {"A", "a", ".", "\n", " ", "-", ":"}

RECURSIVE TextsOfLength(_)
TextsOfLength(n) ==
    IF n = 0 THEN {<<>>}
    ELSE {Append(t, c) : t \in TextsOfLength(n - 1), c \in DocAlphabet}

Docstrings == UNION {TextsOfLength(n) : n \in 0..MaxDocLen}

\* Thresholds scaled to these texts
TinyThresholds ==
    QualityThresholds(
        [max_brief_lines |-> 1, max_brief_lines_extended |-> 2, min_brief_chars |-> 4,
         min_detailed_lines_standard |-> 1, min_detailed_lines_test |-> 2,
         min_detailed_chars_standard |-> 2, min_detailed_chars_test |-> 3,
         min_comprehensive_chars_standard |-> 2,
         min_comprehensive_chars_standard_terse |-> 1,
         min_comprehensive_chars_test |-> 3, min_comprehensive_chars_test_terse |-> 2,
         complexity_medium |-> 1, complexity_high |-> 2,
         max_param_priority_contribution |-> 1,
         min_bullet_points |-> 2, min_paragraph_breaks |-> 1])

\* The configurations the assessor is used with: the default cutoffs, and
\* cutoffs low enough for a short text to reach them
AssessConfigs ==
    {AnalysisConfig([thresholds |-> TinyThresholds, min_docstring_length |-> 2]),
     AnalysisConfig([thresholds |-> TinyThresholds, min_docstring_length |-> 2,
                     quality_thresholds |->
                         [excellent |-> 250, good |-> 125, basic |-> 50]])}

\* Documentation written to the full layout, as the one of
\* test_analyze_function_with_good_docstring (tests/test_analyzer.py): a brief
\* line, paragraphs of detail, a sentence of business context and the four
\* sections.  The briefs: one plain sentence, and one holding an abbreviation.
RoundTripBriefs == {<<"P","r","o","c","e","s","s"," ","t","h","e"," ","i","n","p","u","t"," ","d","a","t","a",".">>, <<"P","r","o","c","e","s","s"," ","e",".","g","."," ","t","h","e"," ","i","n","p","u","t"," ","d","a","t","a",".">>}

\* The detail: two short paragraphs, or two long ones
RoundTripBodies ==
    {<<"A","p","p","l","i","e","s"," ","e","a","c","h"," ","r","u","l","e",".","\n","\n","K","e","e","p","s"," ","t","h","e"," ","o","r","d","e","r",".">>,
     <<"T","h","i","s"," ","f","u","n","c","t","i","o","n"," ","t","a","k","e","s"," ","i","n","p","u","t"," ","d","a","t","a"," ","a","n","d"," ","p","r","o","c","e","s","s","e","s"," ","i","t"," ","a","c","c","o","r","d","i","n","g","\n","t","o"," ","t","h","e"," ","r","u","l","e","s"," ","d","e","f","i","n","e","d"," ","i","n"," ","t","h","e"," ","s","y","s","t","e","m","."," ","I","t"," ","g","i","v","e","s","\n","a"," ","c","l","e","a","n"," ","w","a","y"," ","o","f"," ","d","a","t","a"," ","t","r","a","n","s","f","o","r","m","a","t","i","o","n",".","\n","\n","T","h","e"," ","r","e","s","u","l","t"," ","k","e","e","p","s"," ","t","h","e"," ","o","r","d","e","r"," ","o","f"," ","t","h","e"," ","i","n","p","u","t"," ","a","n","d"," ","n","e","v","e","r"," ","h","o","l","d","s","\n","a"," ","v","a","l","u","e"," ","t","w","i","c","e",";"," ","a","n"," ","e","m","p","t","y"," ","i","n","p","u","t"," ","g","i","v","e","s"," ","a","n"," ","e","m","p","t","y"," ","r","e","s","u","l","t",".","\n","E","v","e","r","y"," ","v","a","l","u","e"," ","i","s"," ","c","h","e","c","k","e","d"," ","b","e","f","o","r","e"," ","i","t"," ","i","s"," ","u","s","e","d",","," ","a","n","d"," ","a"," ","v","a","l","u","e","\n","t","h","a","t"," ","f","a","i","l","s"," ","t","h","e"," ","c","h","e","c","k"," ","i","s"," ","r","e","p","o","r","t","e","d"," ","t","o"," ","t","h","e"," ","c","a","l","l","e","r",".">>}

\* The sentence of business context, its keyword in either case
RoundTripContexts ==
    {<<"P","u","r","p","o","s","e",":"," ","r","e","p","o","r","t","i","n","g",".">>, <<"B","u","s","i","n","e","s","s"," ","r","u","l","e","s"," ","a","p","p","l","y",".">>, <<"P","r","o","v","i","d","e","s"," ","a"," ","c","l","e","a","n"," ","i","n","t","e","r","f","a","c","e",".">>}

\* The four section headers, in the spellings the assessor knows
RoundTripHeaders ==
    {<<<<"A","r","g","s",":">>, <<"R","e","t","u","r","n","s",":">>, <<"R","a","i","s","e","s",":">>, <<"E","x","a","m","p","l","e","s",":">>>>,
     <<<<"P","a","r","a","m","e","t","e","r","s",":">>, <<"R","e","t","u","r","n",":">>, <<"R","a","i","s","e",":">>, <<"E","x","a","m","p","l","e",":">>>>,
     <<<<"A","r","g","s",":">>, <<"R","e","t","u","r","n",":">>, <<"R","a","i","s","e","s",":">>, <<"E","x","a","m","p","l","e",":">>>>,
     <<<<"P","a","r","a","m","e","t","e","r","s",":">>, <<"R","e","t","u","r","n","s",":">>, <<"R","a","i","s","e",":">>, <<"E","x","a","m","p","l","e","s",":">>>>}

RoundTripDoc(brief, body, context, headers) ==
    brief \o <<"\n","\n">> \o body \o <<"\n","\n">> \o context \o <<"\n","\n">>
        \o headers[1] \o <<"\n"," "," "," "," ","d","a","t","a",":"," ","T","h","e"," ","i","n","p","u","t"," ","d","a","t","a"," ","t","o"," ","p","r","o","c","e","s","s",".","\n","\n">>
        \o headers[2] \o <<"\n"," "," "," "," ","T","h","e"," ","p","r","o","c","e","s","s","e","d"," ","d","a","t","a"," ","r","e","s","u","l","t",".","\n","\n">>
        \o headers[3] \o <<"\n"," "," "," "," ","V","a","l","u","e","E","r","r","o","r",":"," ","I","f"," ","d","a","t","a"," ","i","s"," ","i","n","v","a","l","i","d",".","\n","\n">>
        \o headers[4] \o <<"\n"," "," "," "," ",">",">",">"," ","p","r","o","c","e","s","s","(","1",")","\n"," "," "," "," ","1">>

RoundTripDocs ==
    {RoundTripDoc(brief, body, context, headers) :
        brief \in RoundTripBriefs, body \in RoundTripBodies,
        context \in RoundTripContexts, headers \in RoundTripHeaders}

\* A project with stricter requirements (tests/test_models.py,
\* test_custom_thresholds): more paragraphs and more text are asked for
DemandingConfig ==
    AnalysisConfig([thresholds |->
        QualityThresholds([min_paragraph_breaks |-> 12,
                           min_detailed_chars_standard |-> 1000,
                           min_comprehensive_chars_standard |-> 1000])])

\* What the assessor is given: every short text under the scaled thresholds,
\* and the full-layout documentation under the default configuration and
\* under the demanding one
AssessInputs ==
    (AssessConfigs \X Docstrings)
        \cup ({DEFAULT_CONFIG, DemandingConfig} \X RoundTripDocs)

FuncNames == {<<"p","r","o","c","e","s","s">>, <<"t","e","s","t","_","p","r","o","c","e","s","s">>}

\* The function descriptors passed:
\*   def process(): ...                       public, no branch
\*   def _process(self, data) -> str: ...     private, two branches
\*   def process(a, b) -> str: ...            public, two branches
\*   def _process() -> None: ...              private, one branch
\*   def _process(self): ...                  private, no branch
FuncInfos ==
    {[NoFuncInfo EXCEPT !.name = <<"p","r","o","c","e","s","s">>],
     [NoFuncInfo EXCEPT !.name = <<"p","r","o","c","e","s","s">>, !.complexity = 3, !.is_private = TRUE,
         !.args = <<[name |-> <<"s","e","l","f">>, type_annotation |-> PyNone, default |-> PyNone],
                    [name |-> <<"d","a","t","a">>, type_annotation |-> PyNone, default |-> PyNone]>>,
         !.returns = <<"s","t","r">>],
     [NoFuncInfo EXCEPT !.name = <<"p","r","o","c","e","s","s">>, !.complexity = 3,
         !.args = <<[name |-> <<"a">>, type_annotation |-> PyNone, default |-> PyNone],
                    [name |-> <<"b">>, type_annotation |-> PyNone, default |-> PyNone]>>,
         !.returns = <<"s","t","r">>],
     [NoFuncInfo EXCEPT !.name = <<"p","r","o","c","e","s","s">>, !.complexity = 2, !.is_private = TRUE,
         !.returns = <<"N","o","n","e">>],
     [NoFuncInfo EXCEPT !.name = <<"p","r","o","c","e","s","s">>, !.is_private = TRUE,
         !.args = <<[name |-> <<"s","e","l","f">>, type_annotation |-> PyNone, default |-> PyNone]>>]}

InitAssess ==
    /\ config = SmallConfig
    /\ sigalrm_available = TRUE
    /\ PipelineIdle
    /\ ToolsUnused
    /\ a_pc = "ready"
    /\ \E in \in AssessInputs : a_config = in[1] /\ a_docstring = in[2]
    /\ a_func_name \in FuncNames
    /\ a_func_info \in FuncInfos
    /\ a_quality = NoQuality
    /\ a_priority = 0

\* variant of Assess that takes "self" out of the descriptor's own argument list
Assess_dropping_self ==
    /\ a_pc = "ready"
    /\ a_quality' = assess_docstring_quality(a_config, a_docstring, a_func_name,
                                             a_func_info)
    /\ a_func_info' = [a_func_info EXCEPT !.args = SelectSeq(@, _is_not_self)]
    /\ a_pc' = "assessed"
    /\ UNCHANGED <<a_config, a_docstring, a_func_name, a_priority>>
    /\ UNCHANGED pipeline_vars
    /\ UNCHANGED tools_vars

\* quality = analyzer.assess_docstring_quality(docstring, func_name, func_info)
Assess ==
    /\ a_pc = "ready"
    /\ a_quality' = assess_docstring_quality(a_config, a_docstring, a_func_name,
                                             a_func_info)
    /\ a_pc' = "assessed"
    /\ UNCHANGED <<a_config, a_docstring, a_func_name, a_func_info, a_priority>>
    /\ UNCHANGED pipeline_vars
    /\ UNCHANGED tools_vars

\* priority = analyzer.calculate_priority(func_info, quality)
Prioritise ==
    /\ a_pc = "assessed"
    /\ a_priority' = calculate_priority(a_config, a_func_info, a_quality)
    /\ a_pc' = "scored"
    /\ UNCHANGED <<a_config, a_docstring, a_func_name, a_func_info, a_quality>>
    /\ UNCHANGED pipeline_vars
    /\ UNCHANGED tools_vars

NextAssess == Assess \/ Prioritise

SpecAssess == InitAssess /\ [][NextAssess]_vars


\* ------------------------------------- the configuration, from construction

\* The keyword arguments configurations are constructed with: the ones of the
\* tests (tests/test_models.py, tests/test_analyzer.py), and values no field
\* declaration excludes: a negative limit, a negative threshold, cutoffs out
\* of order
ConfigOverrides ==
    {[max_code_size |-> 1024],
     [quality_thresholds |-> [excellent |-> 990, good |-> 980, basic |-> 970]],
     [thresholds |-> QualityThresholds([max_brief_lines |-> 3, complexity_high |-> 15])],
     [max_ast_depth |-> -1],
     [min_docstring_length |-> -1],
     [thresholds |-> QualityThresholds([min_brief_chars |-> -5])],
     [quality_thresholds |-> [excellent |-> 100, good |-> 600, basic |-> 300]],
     [quality_thresholds |-> [excellent |-> 800, good |-> 600, basic |-> -300]]}

\* Documentation without sections: a brief line and the paragraphs of detail
PlainDocs ==
    {brief \o <<"\n","\n">> \o body : brief \in RoundTripBriefs, body \in RoundTripBodies}

InitConfig ==
    /\ config = SmallConfig
    /\ sigalrm_available = TRUE
    /\ PipelineIdle
    /\ ToolsUnused
    /\ a_pc = "unconfigured"
    /\ a_config = DEFAULT_CONFIG
    /\ a_docstring \in RoundTripDocs \cup PlainDocs \cup {<<>>}
    /\ a_func_name \in FuncNames
    /\ a_func_info \in FuncInfos
    /\ a_quality = NoQuality
    /\ a_priority = 0

\* analyzer = PythonAnalyzer(config): config is None, or AnalysisConfig(**over)
Construct ==
    /\ a_pc = "unconfigured"
    /\ \/ a_config' = DEFAULT_CONFIG
       \/ \E over \in ConfigOverrides : a_config' = AnalysisConfig(over)
    /\ a_pc' = "ready"
    /\ UNCHANGED <<a_docstring, a_func_name, a_func_info, a_quality, a_priority>>
    /\ UNCHANGED pipeline_vars
    /\ UNCHANGED tools_vars

\* the same call once more, on the same analyzer and the same objects:
\* quality = analyzer.assess_docstring_quality(docstring, func_name, func_info)
Reassess ==
    /\ a_pc = "scored"
    /\ a_quality' = assess_docstring_quality(a_config, a_docstring, a_func_name,
                                             a_func_info)
    /\ a_pc' = "reassessed"
    /\ UNCHANGED <<a_config, a_docstring, a_func_name, a_func_info, a_priority>>
    /\ UNCHANGED pipeline_vars
    /\ UNCHANGED tools_vars

\* priority = analyzer.calculate_priority(func_info, quality), once more
Reprioritise ==
    /\ a_pc = "reassessed"
    /\ a_priority' = calculate_priority(a_config, a_func_info, a_quality)
    /\ a_pc' = "rescored"
    /\ UNCHANGED <<a_config, a_docstring, a_func_name, a_func_info, a_quality>>
    /\ UNCHANGED pipeline_vars
    /\ UNCHANGED tools_vars

NextConfig == Construct \/ Assess \/ Prioritise \/ Reassess \/ Reprioritise

SpecConfig == InitConfig /\ [][NextConfig]_vars

\* ------------------------------------------- the assessor, names and flags

\* The names of tests/test_analyzer.py (test_detect_test_function), and names
\* that hold "test" without beginning with "test_"
ClassifyNames ==
    {<<"t","e","s","t","_","P","a","r","s","e","A","S","T","_","S","u","c","c","e","s","s">>, <<"t","e","s","t","_","p","a","r","s","i","n","g","_","i","n","v","a","l","i","d","_","s","y","n","t","a","x">>, <<"p","r","o","c","e","s","s","_","d","a","t","a">>,
     <<"_","t","e","s","t","_","h","e","l","p","e","r">>, <<"t","e","s","t">>, <<"t","e","s","t","s","_","r","u","n">>, <<"T","e","s","t","_","r","u","n">>, <<"m","y","_","t","e","s","t","_","r","u","n">>}

\* The descriptors: the ones of FuncInfos, each with its own name and with
\* the name of a test, and with the is_test flag false and true
ClassifyInfos ==
    {[f EXCEPT !.name = n, !.is_test = b] :
        f \in FuncInfos, n \in {<<"p","r","o","c","e","s","s">>, <<"t","e","s","t","_","p","r","o","c","e","s","s">>}, b \in BOOLEAN}

\* The documentation: a text with the sections, one without, and the
\* documentation of a test
ClassifyDocs ==
    {RoundTripDoc(<<"P","r","o","c","e","s","s"," ","t","h","e"," ","i","n","p","u","t"," ","d","a","t","a",".">>, <<"A","p","p","l","i","e","s"," ","e","a","c","h"," ","r","u","l","e",".","\n","\n","K","e","e","p","s"," ","t","h","e"," ","o","r","d","e","r",".">>,
                  <<"P","u","r","p","o","s","e",":"," ","r","e","p","o","r","t","i","n","g",".">>, <<<<"A","r","g","s",":">>, <<"R","e","t","u","r","n","s",":">>, <<"R","a","i","s","e","s",":">>, <<"E","x","a","m","p","l","e","s",":">>>>),
     <<"P","r","o","c","e","s","s"," ","t","h","e"," ","i","n","p","u","t"," ","d","a","t","a",".","\n","\n","A","p","p","l","i","e","s"," ","e","a","c","h"," ","r","u","l","e",".","\n","\n","K","e","e","p","s"," ","t","h","e"," ","o","r","d","e","r",".">>,
     SourceDefs["test_run"].docstring,
     <<"R","u","n",".">>}

InitClassify ==
    /\ config = SmallConfig
    /\ sigalrm_available = TRUE
    /\ PipelineIdle
    /\ ToolsUnused
    /\ a_pc = "ready"
    /\ a_config \in {DEFAULT_CONFIG, SmallConfig}
    /\ a_docstring \in ClassifyDocs
    /\ a_func_name \in ClassifyNames
    /\ a_func_info \in ClassifyInfos
    /\ a_quality = NoQuality
    /\ a_priority = 0

NextClassify == Assess \/ Prioritise

SpecClassify == InitClassify /\ [][NextClassify]_vars
\* ------------------------------------------------------------------ server

\* JSONRPCErrorCode
PARSE_ERROR == -32700

METHOD_NOT_FOUND == -32601

INVALID_PARAMS == -32602

INTERNAL_ERROR == -32603

\* the two shapes of response handle_message and run build
ResultResponse(message_id, payload) ==
    [jsonrpc |-> "2.0", id |-> message_id, result |-> payload]

ErrorResponse(message_id, error_code, message) ==
    [jsonrpc |-> "2.0", id |-> message_id,
     error |-> [code |-> error_code, message |-> message]]

\* what a call leaves its caller with
Responds(response) == [kind |-> "response", response |-> response]

Raises(exception) == [kind |-> "raised", exception |-> exception]

ReachesAnalyze(message_id, c, p) ==
    [kind |-> "analyze", id |-> message_id, code |-> c, file_path |-> p]

\* DocScopeMCPServer._format_results: the text, as whether it is the "Great!"
\* sentence and the functions it lists (the display limits are not modelled)
_format_results(results) ==
    [great |-> results = <<>>,
     listed |-> [i \in 1..Len(results) |-> results[i].function_name]]

\* DocScopeMCPServer._execute_analyze_functions up to the call of
\* analyzer.analyze. Everything is inside try/except Exception, so that
\* arguments.get on a value that is no dict, and a language that cannot be a
\* dict key, end as INTERNAL_ERROR.
_execute_analyze_functions(cfg, arguments, message_id) ==
    IF arguments.shape # "object"
    THEN Responds(ErrorResponse(message_id, INTERNAL_ERROR, "Internal error"))
    ELSE LET c == IF arguments.code.type = "absent"
                  THEN [type |-> "str", size |-> 0, parse |-> "ok", tree |-> EmptyTree]
                  ELSE arguments.code
             p == get(arguments.file_path, <<>>)
             language == get(arguments.language, JStr("python"))
         IN  IF c.type # "str" \/ c.size = 0
             THEN Responds(ErrorResponse(message_id, INVALID_PARAMS,
                                         "'code' is required and must be a string"))
             ELSE IF c.size > cfg.max_code_size
             THEN Responds(ErrorResponse(message_id, INVALID_PARAMS, "Code too large"))
             ELSE IF language = JArray
             THEN Responds(ErrorResponse(message_id, INTERNAL_ERROR, "Internal error"))
             ELSE IF language # JStr("python")
             THEN Responds(ErrorResponse(message_id, INVALID_PARAMS,
                                         "Unsupported language"))
             ELSE ReachesAnalyze(message_id, c, p)

\* _execute_analyze_functions from the return of analyzer.analyze: exception
\* is what analyze raised, or "none", and results what it returned
_execute_analyze_functions_after(message_id, exception, results) ==
    IF exception # "none"
    THEN ErrorResponse(message_id, INTERNAL_ERROR, "Internal error")
    ELSE IF results # <<>> /\ "error" \in DOMAIN results[1]
    THEN ErrorResponse(message_id, INTERNAL_ERROR, "Analysis failed")
    ELSE ResultResponse(message_id, [content |-> _format_results(results)])

\* DocScopeMCPServer.handle_message. message.get and params.get are outside
\* any try block: they raise AttributeError on a value that is no dict.
handle_message(cfg, message) ==
    IF message.shape # "object" THEN Raises("AttributeError")
    ELSE LET method == get(message.method, JNull)
             message_id == get(message.id, JNull)
         IN  IF method = JStr("initialize")
             THEN Responds(ResultResponse(message_id, [protocolVersion |-> "2024-11-05"]))
             ELSE IF method = JStr("tools/list")
             THEN Responds(ResultResponse(message_id, [tools |-> <<"analyze_functions">>]))
             ELSE IF method = JStr("tools/call")
             THEN IF message.params.shape \notin {"absent", "object"}
                  THEN Raises("AttributeError")
                  ELSE LET tool_name == get(message.params.name, JNull)
                           arguments ==
                               IF message.params.arguments.shape = "absent"
                               THEN [NoArguments EXCEPT !.shape = "object"]
                               ELSE message.params.arguments
                       IN  IF tool_name = JStr("analyze_functions")
                           THEN _execute_analyze_functions(cfg, arguments, message_id)
                           ELSE Responds(ErrorResponse(message_id, METHOD_NOT_FOUND,
                                                       "Unknown tool"))
             ELSE Responds(ErrorResponse(message_id, METHOD_NOT_FOUND, "Unknown method"))

\* Messages
Request(method, id, params) ==
    [shape |-> "object", method |-> method, id |-> id, params |-> params]

ToolCall(name, arguments) == [shape |-> "object", name |-> name, arguments |-> arguments]

Arguments(c, language, p) ==
    [shape |-> "object", code |-> c, language |-> language, file_path |-> p]

AnalyzeRequest(id, c, language, p) ==
    Request(JStr("tools/call"), id,
            ToolCall(JStr("analyze_functions"), Arguments(c, language, p)))

\* def process(data): ...
OneFunctionTree ==
    [parent |-> <<0, 1>>,
     node |-> <<[kind |-> "Module", def |-> "-"],
                [kind |-> "FunctionDef", def |-> "process"]>>]

SourceText(n, outcome, tree) == [type |-> "str", size |-> n, parse |-> outcome, tree |-> tree]

Messages(cfg) ==
    {[NoMessage EXCEPT !.shape = "array"],
     Request(JStr("initialize"), JNum("1"), NoParams),
     Request(JStr("initialize"), Absent, [NoParams EXCEPT !.shape = "null"]),
     Request(JStr("tools/list"), JStr("a"), NoParams),
     Request(JStr("bogus"), JNum("1"), NoParams),
     Request(Absent, JNum("2"), NoParams),
     Request(JStr("tools/call"), JNum("1"), [NoParams EXCEPT !.shape = "null"]),
     Request(JStr("tools/call"), JNum("2"), [NoParams EXCEPT !.shape = "array"]),
     Request(JStr("tools/call"), JNum("1"), NoParams),
     Request(JStr("tools/call"), JNum("1"), ToolCall(JStr("other"), NoArguments)),
     Request(JStr("tools/call"), JNum("2"),
             ToolCall(JStr("analyze_functions"), NoArguments)),
     Request(JStr("tools/call"), JNum("1"),
             ToolCall(JStr("analyze_functions"), [NoArguments EXCEPT !.shape = "null"])),
     AnalyzeRequest(JNum("1"), [NoCode EXCEPT !.type = "int"], Absent, Absent),
     AnalyzeRequest(JNum("1"), SourceText(cfg.max_code_size + 1, "ok", EmptyTree),
                    Absent, Absent),
     AnalyzeRequest(JNum("2"), SourceText(1, "ok", EmptyTree), JStr("ruby"), Absent),
     AnalyzeRequest(JNum("2"), SourceText(1, "ok", EmptyTree), JArray, Absent),
     AnalyzeRequest(JNum("1"), SourceText(1, "ok", EmptyTree), Absent, Absent),
     AnalyzeRequest(JStr("a"), SourceText(1, "ok", OneFunctionTree), JStr("python"),
                    <<"a",".","p","y">>),
     AnalyzeRequest(JNum("2"), SourceText(1, "ok", EmptyTree), Absent, PyInt),
     AnalyzeRequest(JNum("1"), SourceText(1, "SyntaxError", EmptyTree), Absent, Absent),
     AnalyzeRequest(JNum("2"), SourceText(1, "ValueError", EmptyTree), Absent, Absent)}

\* The lines of standard input: a line of white space, a line that is no
\* JSON, and a line for every message
InputLines(cfg) ==
    {[kind |-> k, message |-> NoMessage] : k \in {"blank", "invalid"}}
    \cup {[kind |-> "json", message |-> m] : m \in Messages(cfg)}

MaxLines == 2

InputScripts(cfg) == UNION {[1..n -> InputLines(cfg)] : n \in 0..MaxLines}

InitServer ==
    /\ config \in Configs
    /\ sigalrm_available \in BOOLEAN
    /\ PipelineIdle
    /\ AssessorUnused
    /\ InstallerUnused
    /\ ValidatorUnused
    /\ stdin \in InputScripts(config)
    /\ stdout = <<>>
    /\ s_pc = "reading"
    /\ s_read = <<>>
    /\ s_message = NoMessage
    /\ s_outcome = [kind |-> "none"]
    /\ s_break = "none"

server_frame == <<assess_vars, installer_vars, validator_vars>>

\* run, lines 424-428: readline returns "" at the end of input
ReadEOF ==
    /\ s_pc = "reading"
    /\ ~caller_interrupted
    /\ stdin = <<>>
    /\ s_pc' = "stopped"
    /\ s_break' = "eof"
    /\ UNCHANGED <<stdin, stdout, s_read, s_message, s_outcome>>
    /\ UNCHANGED pipeline_vars
    /\ UNCHANGED server_frame

\* run, lines 430-432: a line that strip() leaves empty
ReadBlank ==
    /\ s_pc = "reading"
    /\ ~caller_interrupted
    /\ stdin # <<>>
    /\ Head(stdin).kind = "blank"
    /\ stdin' = Tail(stdin)
    /\ s_read' = Append(s_read, Head(stdin))
    /\ UNCHANGED <<stdout, s_pc, s_message, s_outcome, s_break>>
    /\ UNCHANGED pipeline_vars
    /\ UNCHANGED server_frame

\* run, lines 435 and 439-449: json.loads raises JSONDecodeError
ReadInvalidJSON ==
    /\ s_pc = "reading"
    /\ ~caller_interrupted
    /\ stdin # <<>>
    /\ Head(stdin).kind = "invalid"
    /\ stdin' = Tail(stdin)
    /\ s_read' = Append(s_read, Head(stdin))
    /\ stdout' = Append(stdout, ErrorResponse(JNull, PARSE_ERROR, "Parse error"))
    /\ UNCHANGED <<s_pc, s_message, s_outcome, s_break>>
    /\ UNCHANGED pipeline_vars
    /\ UNCHANGED server_frame

\* run, lines 435-437: handle_message returns without calling the analyzer
HandleResponds ==
    /\ s_pc = "reading"
    /\ ~caller_interrupted
    /\ stdin # <<>>
    /\ Head(stdin).kind = "json"
    /\ handle_message(config, Head(stdin).message).kind = "response"
    /\ stdin' = Tail(stdin)
    /\ s_read' = Append(s_read, Head(stdin))
    /\ s_message' = Head(stdin).message
    /\ s_outcome' = handle_message(config, Head(stdin).message)
    /\ stdout' = Append(stdout, handle_message(config, Head(stdin).message).response)
    /\ UNCHANGED <<s_pc, s_break>>
    /\ UNCHANGED pipeline_vars
    /\ UNCHANGED server_frame

\* run, lines 436 and 451-453: handle_message raises, the outer except logs
\* the exception and leaves the loop
HandleRaises ==
    /\ s_pc = "reading"
    /\ ~caller_interrupted
    /\ stdin # <<>>
    /\ Head(stdin).kind = "json"
    /\ handle_message(config, Head(stdin).message).kind = "raised"
    /\ stdin' = Tail(stdin)
    /\ s_read' = Append(s_read, Head(stdin))
    /\ s_message' = Head(stdin).message
    /\ s_outcome' = handle_message(config, Head(stdin).message)
    /\ s_pc' = "stopped"
    /\ s_break' = "exception"
    /\ UNCHANGED stdout
    /\ UNCHANGED pipeline_vars
    /\ UNCHANGED server_frame

\* _execute_analyze_functions, line 283: the call analyzer.analyze(code, file_path)
HandleCallsAnalyze ==
    /\ s_pc = "reading"
    /\ ~caller_interrupted
    /\ stdin # <<>>
    /\ Head(stdin).kind = "json"
    /\ handle_message(config, Head(stdin).message).kind = "analyze"
    /\ stdin' = Tail(stdin)
    /\ s_read' = Append(s_read, Head(stdin))
    /\ s_message' = Head(stdin).message
    /\ s_outcome' = [kind |-> "none"]
    /\ s_pc' = "analyzing"
    /\ pc' = "validate"
    /\ code' = handle_message(config, Head(stdin).message).code
    /\ file_path' = handle_message(config, Head(stdin).message).file_path
    /\ UNCHANGED <<stdout, s_break>>
    /\ UNCHANGED <<config, sigalrm_available, sig_handler, alarm_pending, old_handler,
                   handler_before, parse_exit, parser_invoked, functions, result,
                   raised, logged, caller_interrupted>>
    /\ UNCHANGED server_frame

\* _execute_analyze_functions, lines 283-313, and run, line 437: analyze is
\* back, the response is built and printed. An alarm that fired after analyze
\* returned raised TimeoutError inside the try block.
AnalyzeReturns ==
    /\ s_pc = "analyzing"
    /\ pc = "returned"
    /\ LET response ==
               _execute_analyze_functions_after(
                   get(s_message.id, JNull),
                   IF caller_interrupted THEN "TimeoutError" ELSE raised, result)
       IN  /\ s_outcome' = Responds(response)
           /\ stdout' = Append(stdout, response)
    /\ s_pc' = "reading"
    /\ pc' = "idle"
    /\ code' = [type |-> "str", size |-> 0, parse |-> "ok", tree |-> EmptyTree]
    /\ file_path' = <<>>
    /\ old_handler' = "None"
    /\ handler_before' = "SIG_DFL"
    /\ parse_exit' = "none"
    /\ parser_invoked' = FALSE
    /\ functions' = <<>>
    /\ result' = <<>>
    /\ raised' = "none"
    /\ logged' = FALSE
    /\ caller_interrupted' = FALSE
    /\ UNCHANGED <<stdin, s_read, s_message, s_break>>
    /\ UNCHANGED <<config, sigalrm_available, sig_handler, alarm_pending>>
    /\ UNCHANGED server_frame

\* An alarm that analyze left armed fires while run waits for a line: the
\* TimeoutError is raised inside the loop's try block, and line 453 leaves
\* the loop, or in the event loop itself, and the process ends
LoopInterrupted ==
    /\ s_pc = "reading"
    /\ caller_interrupted
    /\ s_pc' = "stopped"
    /\ s_break' \in {"exception", "crash"}
    /\ caller_interrupted' = FALSE
    /\ UNCHANGED <<stdin, stdout, s_read, s_message, s_outcome>>
    /\ UNCHANGED <<config, sigalrm_available, sig_handler, alarm_pending, pc, code,
                   file_path, old_handler, handler_before, parse_exit, parser_invoked,
                   functions, result, raised, logged>>
    /\ UNCHANGED server_frame

NextServer ==
    \/ ReadEOF
    \/ ReadBlank
    \/ ReadInvalidJSON
    \/ HandleResponds
    \/ HandleRaises
    \/ HandleCallsAnalyze
    \/ Validate
    \/ ParseStart
    \/ ParseReturnsTree
    \/ ParseSyntaxError
    \/ ParseOtherException
    \/ AlarmFires
    \/ DepthCheck
    \/ Extract
    \/ Sort
    \/ AnalyzeReturns
    \/ LoopInterrupted

SpecServer == InitServer /\ [][NextServer]_vars

\* --------------------------------------------------------------- installer

\* get_mcp_server_config(): the entry install_mcp writes; the same at every
\* call as long as the interpreter and the .venv directory stay as they are
CurrentEntry == "current"

\* the values found under "servers": an object with its entries in order, or
\* null, an array or a string; holds says whether 'docscope-mcp' in value is
\* true of the array or string
ServersObject(entries) == [shape |-> "object", entries |-> entries, holds |-> FALSE]

ServersOther(shape, holds) == [shape |-> shape, entries |-> <<>>, holds |-> holds]

\* the value of a file that is valid JSON: an object with its items in order,
\* the array [] or null
ObjectConfig(items) == [shape |-> "object", items |-> items]

OtherShape(shape) == [shape |-> shape, items |-> <<>>]

\* a file whose text is JSON; layout is how the text is laid out, "indent2"
\* being what json.dump(config, f, indent=2) followed by a newline writes
JsonFile(layout, value) ==
    [exists |-> TRUE, valid |-> TRUE, layout |-> layout, value |-> value]

\* a file whose text is no JSON
InvalidFile ==
    [exists |-> TRUE, valid |-> FALSE, layout |-> "none", value |-> OtherShape("none")]

ConfigValues ==
    {ObjectConfig(<<>>),
     ObjectConfig(<<<<"inputs", ServersOther("array", FALSE)>>>>),
     ObjectConfig(<<<<"servers", ServersObject(<<>>)>>>>),
     ObjectConfig(<<<<"servers", ServersObject(<<<<"other", "theirs">>>>)>>>>),
     ObjectConfig(<<<<"servers", ServersObject(<<<<"docscope-mcp", "stale">>,
                                                  <<"other", "theirs">>>>)>>,
                    <<"inputs", ServersOther("array", FALSE)>>>>),
     ObjectConfig(<<<<"inputs", ServersOther("array", FALSE)>>,
                    <<"servers", ServersObject(<<<<"other", "theirs">>,
                                                  <<"docscope-mcp", CurrentEntry>>>>)>>>>),
     ObjectConfig(<<<<"servers", ServersOther("null", FALSE)>>>>),
     ObjectConfig(<<<<"servers", ServersOther("array", FALSE)>>>>),
     ObjectConfig(<<<<"servers", ServersOther("array", TRUE)>>>>),
     ObjectConfig(<<<<"servers", ServersOther("string", TRUE)>>>>),
     OtherShape("array"),
     OtherShape("null")}

Files ==
    {MissingFile, InvalidFile}
    \cup {JsonFile(layout, value) : layout \in {"compact", "indent2"}, value \in ConfigValues}

\* del d[key]
DictDel(d, key) == SelectSeq(d, LAMBDA item : item[1] # key)

\* what a call did: the exit code it returned (-1 when it returned none), the
\* exception it let through, the file it left and whether it opened the file
\* for writing
Returned(rc, file, wrote) ==
    [rc |-> rc, raised |-> "none", file |-> file, wrote |-> wrote]

Raised(exception, file) ==
    [rc |-> -1, raised |-> exception, file |-> file, wrote |-> FALSE]

\* variant of install_mcp that writes a servers object holding its entry alone
install_mcp_fresh_servers(file) ==
    IF file.exists /\ ~file.valid THEN Returned(1, file, FALSE)
    ELSE LET loaded == IF file.exists THEN file.value ELSE ObjectConfig(<<>>)
         IN  IF loaded.shape # "object" THEN Raised("TypeError", file)
             ELSE Returned(0, JsonFile("indent2",
                      ObjectConfig(DictSet(loaded.items, "servers",
                          ServersObject(<<<<"docscope-mcp", CurrentEntry>>>>)))), TRUE)

\* install_mcp, lines 166-192. "servers" not in config raises TypeError on
\* null, config["servers"] = {} on an array, and
\* config["servers"]["docscope-mcp"] = ... on a value that is no object; all
\* of them before the file is opened for writing.
install_mcp(file) ==
    IF file.exists /\ ~file.valid THEN Returned(1, file, FALSE)
    ELSE LET loaded == IF file.exists THEN file.value
                       ELSE ObjectConfig(<<<<"servers", ServersObject(<<>>)>>>>)
         IN  IF loaded.shape # "object" THEN Raised("TypeError", file)
             ELSE LET items == IF ~DictHas(loaded.items, "servers")
                               THEN DictSet(loaded.items, "servers", ServersObject(<<>>))
                               ELSE loaded.items
                      servers == DictGet(items, "servers", ServersObject(<<>>))
                  IN  IF servers.shape # "object" THEN Raised("TypeError", file)
                      ELSE Returned(0, JsonFile("indent2",
                               ObjectConfig(DictSet(items, "servers",
                                   ServersObject(DictSet(servers.entries, "docscope-mcp",
                                                         CurrentEntry))))), TRUE)

\* uninstall_mcp, lines 223-247. "servers" in config raises TypeError on null,
\* "docscope-mcp" in config["servers"] on null, and the del on an array or a
\* string that holds "docscope-mcp".
uninstall_mcp(file) ==
    IF ~file.exists THEN Returned(0, file, FALSE)
    ELSE IF ~file.valid THEN Returned(1, file, FALSE)
    ELSE IF file.value.shape = "null" THEN Raised("TypeError", file)
    ELSE IF file.value.shape = "array" \/ ~DictHas(file.value.items, "servers")
    THEN Returned(0, file, FALSE)
    ELSE LET servers == DictGet(file.value.items, "servers", ServersObject(<<>>))
         IN  IF servers.shape = "null" THEN Raised("TypeError", file)
             ELSE IF servers.shape # "object"
             THEN IF servers.holds THEN Raised("TypeError", file)
                  ELSE Returned(0, file, FALSE)
             ELSE IF DictHas(servers.entries, "docscope-mcp")
             THEN Returned(0, JsonFile("indent2",
                      ObjectConfig(DictSet(file.value.items, "servers",
                          ServersObject(DictDel(servers.entries, "docscope-mcp"))))),
                      TRUE)
             ELSE Returned(0, file, FALSE)

MaxCalls == 3

CallRecord(op, outcome) ==
    [op |-> op, rc |-> outcome.rc, raised |-> outcome.raised, wrote |-> outcome.wrote]

InitInstaller ==
    /\ config \in Configs
    /\ sigalrm_available = TRUE
    /\ PipelineIdle
    /\ AssessorUnused
    /\ ServerUnused
    /\ ValidatorUnused
    /\ mcp_file \in Files
    /\ mcp_before = mcp_file
    /\ mcp_calls = <<>>

installer_frame == <<pipeline_vars, assess_vars, server_vars, validator_vars>>

\* the command docscope-mcp install
Install ==
    /\ Len(mcp_calls) < MaxCalls
    /\ mcp_before' = mcp_file
    /\ mcp_file' = install_mcp(mcp_file).file
    /\ mcp_calls' = Append(mcp_calls, CallRecord("install", install_mcp(mcp_file)))
    /\ UNCHANGED installer_frame

\* the command docscope-mcp uninstall
Uninstall ==
    /\ Len(mcp_calls) < MaxCalls
    /\ mcp_before' = mcp_file
    /\ mcp_file' = uninstall_mcp(mcp_file).file
    /\ mcp_calls' = Append(mcp_calls, CallRecord("uninstall", uninstall_mcp(mcp_file)))
    /\ UNCHANGED installer_frame

NextInstaller == Install \/ Uninstall

SpecInstaller == InitInstaller /\ [][NextInstaller]_vars

\* --------------------------------------------------------- path validation

\* The workspace root, and the directories that exist: /, /ws, /ws/src, /etc.
\* A path is the sequence of its components from the root.
Workspace == <<"ws">>

Directories == {<<>>, <<"ws">>, <<"ws", "src">>, <<"etc">>}

\* a user-provided path, Path(...).is_absolute() and Path(...).parts
UserPath(absolute, parts) == [absolute |-> absolute, parts |-> parts]

\* The symbolic links of a filesystem, each with the target readlink returns.
\* None of the layouts has a cycle of links.
LinkLayouts ==
    {<<>>,
     <<<<<<"ws", "link">>, UserPath(FALSE, <<"src">>)>>,
       <<<<"ws", "out">>, UserPath(TRUE, <<"etc">>)>>,
       <<<<"etc", "back">>, UserPath(TRUE, <<"ws">>)>>>>,
     <<<<<<"ws", "link">>, UserPath(TRUE, <<"ws", "src">>)>>,
       <<<<"ws", "out">>, UserPath(FALSE, <<"..", "etc">>)>>>>,
     <<<<<<"ws", "link">>, UserPath(FALSE, <<"..">>)>>,
       <<<<"ws", "src", "out">>, UserPath(FALSE, <<"..", "link", "etc">>)>>>>,
     <<<<<<"ws", "link">>, UserPath(FALSE, <<"out">>)>>,
       <<<<"ws", "out">>, UserPath(TRUE, <<"etc">>)>>>>}

PathParts == {"src", "link", "out", "back", "f", "..", "ws", "etc"}

MaxParts == 3

UserPaths ==
    {UserPath(absolute, parts) :
        absolute \in BOOLEAN, parts \in UNION {[1..n -> PathParts] : n \in 0..MaxParts}}

\* PurePath.parent of a path with at least one component
parent(p) == SubSeq(p, 1, Len(p) - 1)

\* PurePath.relative_to(base) does not raise ValueError
relative_to(p, base) == Len(base) <= Len(p) /\ SubSeq(p, 1, Len(base)) = base

\* Path.resolve() of the absolute path acc / rest, acc being resolved already:
\* ".." leaves the directory reached so far, a symbolic link is replaced by
\* its target, a component that does not exist is kept as it is
RECURSIVE resolve_from(_, _, _)
resolve_from(links, acc, rest) ==
    IF rest = <<>> THEN acc
    ELSE IF Head(rest) = ".."
    THEN resolve_from(links, IF acc = <<>> THEN <<>> ELSE parent(acc), Tail(rest))
    ELSE IF DictHas(links, Append(acc, Head(rest)))
    THEN LET target == DictGet(links, Append(acc, Head(rest)), UserPath(TRUE, <<>>))
         IN  resolve_from(links, IF target.absolute THEN <<>> ELSE acc,
                          target.parts \o Tail(rest))
    ELSE resolve_from(links, Append(acc, Head(rest)), Tail(rest))

resolve(links, p) == resolve_from(links, <<>>, p)

\* whether the operating system finds the directory p: every component of
\* it exists, links followed
RECURSIVE found_from(_, _, _)
found_from(links, acc, rest) ==
    IF rest = <<>> THEN TRUE
    ELSE IF Head(rest) = ".."
    THEN found_from(links, IF acc = <<>> THEN <<>> ELSE parent(acc), Tail(rest))
    ELSE IF DictHas(links, Append(acc, Head(rest)))
    THEN LET target == DictGet(links, Append(acc, Head(rest)), UserPath(TRUE, <<>>))
         IN  found_from(links, IF target.absolute THEN <<>> ELSE acc,
                        target.parts \o Tail(rest))
    ELSE /\ Append(acc, Head(rest)) \in Directories
         /\ found_from(links, Append(acc, Head(rest)), Tail(rest))

\* Path.is_symlink(): lstat follows the links of the parent directory, not
\* the last component, and is false when the path is not found
is_symlink(links, p) ==
    /\ p # <<>>
    /\ p[Len(p)] # ".."
    /\ found_from(links, <<>>, parent(p))
    /\ DictHas(links, Append(resolve(links, parent(p)), p[Len(p)]))

\* Path.readlink()
readlink(links, p) ==
    DictGet(links, Append(resolve(links, parent(p)), p[Len(p)]), UserPath(TRUE, <<>>))

\* validate_workspace_boundary, lines 401-405: the resolved target of the
\* symbolic link current
link_target(links, current) ==
    IF readlink(links, current).absolute
    THEN resolve(links, readlink(links, current).parts)
    ELSE resolve(links, parent(current) \o readlink(links, current).parts)

PathReturned(p) == [kind |-> "returned", path |-> p, message |-> ""]

ValueError(message) == [kind |-> "ValueError", path |-> <<>>, message |-> message]

\* PathSecurityValidator.validate_workspace_boundary, without an adapter
validate_workspace_boundary(links, path, workspace) ==
    IF path.absolute THEN PathReturned(path.parts)
    ELSE LET full_path == workspace \o path.parts
             workspace_resolved == resolve(links, workspace)
             escaping ==
                 {k \in 1..Len(path.parts) :
                     /\ is_symlink(links, workspace \o SubSeq(path.parts, 1, k))
                     /\ ~relative_to(link_target(links,
                                                 workspace \o SubSeq(path.parts, 1, k)),
                                     workspace_resolved)}
         IN  IF escaping # {} THEN ValueError("Symlink target escapes workspace")
             ELSE IF relative_to(resolve(links, full_path), workspace_resolved)
             THEN PathReturned(resolve(links, full_path))
             ELSE ValueError("Path escapes workspace")

InitWorkspace ==
    /\ config \in Configs
    /\ sigalrm_available = TRUE
    /\ PipelineIdle
    /\ AssessorUnused
    /\ ServerUnused
    /\ InstallerUnused
    /\ fs_links \in LinkLayouts
    /\ fs_path = NoPath
    /\ fs_outcome = NoOutcome

\* a call validate_workspace_boundary(p, workspace)
ValidatePath(p) ==
    /\ fs_path' = p
    /\ fs_outcome' = validate_workspace_boundary(fs_links, p, Workspace)
    /\ UNCHANGED fs_links
    /\ UNCHANGED <<pipeline_vars, assess_vars, server_vars, installer_vars>>

NextWorkspace == \E p \in UserPaths : ValidatePath(p)

SpecWorkspace == InitWorkspace /\ [][NextWorkspace]_vars

\* ------------------------------------------------------------------ claims

IsErrorItem(r) == "error" \in DOMAIN r

IsFunctionKind(kind) == kind = "FunctionDef" \/ kind = "AsyncFunctionDef"

\* depth of a node: the number of its ancestors (the Module is at depth 0)
RECURSIVE NodeDepth(_, _)
NodeDepth(tree, n) == IF tree.parent[n] = 0 THEN 0 ELSE 1 + NodeDepth(tree, tree.parent[n])

TooDeep(cfg, tree) == \E n \in 1..Len(tree.parent) : NodeDepth(tree, n) > cfg.max_ast_depth

\* the call returned a list after the parser gave a tree
ReturnedForTree == pc = "returned" /\ raised = "none" /\ parse_exit = "tree"

\* the call went past the depth guard and returned
ReturnedResults == ReturnedForTree /\ ~TooDeep(config, code.tree)

\* C1: a list returned by analyze holds analysis results only (it may be
\* empty), or it is a single item with an error field; never results and an
\* error marker together, never two error markers.
C1_ReturnShape ==
    (pc = "returned" /\ raised = "none") =>
        \/ \A i \in 1..Len(result) : ~IsErrorItem(result[i])
        \/ Len(result) = 1 /\ IsErrorItem(result[1])

\* C1 witness: an error list was returned for a source whose tree holds a
\* function that needs improvement
C1_Witness ==
    /\ pc = "returned"
    /\ raised = "none"
    /\ result = error_list("AST depth exceeds maximum")
    /\ \E n \in 1..Len(code.tree.parent) : code.tree.node[n].def = "process"

\* C2: analyze never lets an exception cross its boundary: whatever is passed
\* as source and as file identifier, a failure comes back as an error list.
C2_NeverRaises == raised = "none"

\* C3: once _parse_with_timeout has left (with a tree, a syntax error or a
\* timeout), no alarm is pending and the SIGALRM handler that was installed
\* before the call is installed again.
C3_TimeoutCancelled ==
    parse_exit \in {"tree", "syntax", "timeout"} =>
        ~alarm_pending /\ sig_handler = handler_before

\* what analyze(c, p) can do when it is the only call ever made
AloneOutcomes(cfg, avail, c, p) ==
    IF c.type # "str" THEN {[raised |-> "TypeError", result |-> <<>>]}
    ELSE IF _validate_code_security(cfg, c, p) # <<>>
    THEN {[raised |-> "none", result |-> _validate_code_security(cfg, c, p)]}
    ELSE {[raised |-> "none", result |-> error_list("Parse timeout")] :
             x \in {y \in {1} : avail /\ cfg.ast_parse_timeout > 0}}
         \cup {[raised |-> "none", result |->
                   IF c.parse = "SyntaxError" THEN error_list("Syntax error")
                   ELSE IF c.parse = "ValueError" THEN error_list("Failed to analyze code")
                   ELSE IF TooDeep(cfg, c.tree)
                   THEN error_list("AST depth exceeds maximum")
                   ELSE _sort_by_priority(
                            _extract_functions_needing_improvement(cfg, c.tree, p))]}

\* C4: calls share no mutable state: the outcome of every call is one it can
\* have when run alone, and a call that has returned never interrupts the code
\* that runs after it.
C4_Reentrant ==
    /\ ~caller_interrupted
    /\ pc = "returned" =>
           [raised |-> raised, result |-> result]
               \in AloneOutcomes(config, sigalrm_available, code, file_path)

\* the inputs the validation is to reject
Rejected(cfg, c, p) ==
    \/ c.type = "str" /\ c.size > cfg.max_code_size
    \/ ~isinstance_str(p)
    \/ isinstance_str(p) /\ Len(p) > cfg.max_file_path_length
    \/ isinstance_str(p) /\ contains(p, <<NUL>>)

\* C5: a source longer than max_code_size, or a file identifier that is no
\* string, is longer than max_file_path_length or holds a null byte, gives a
\* single-item error list without the parser being invoked; a source and an
\* identifier of exactly the allowed length are not rejected for their length.
C5_ValidationPrecedesParsing ==
    pc = "returned" =>
        /\ Rejected(config, code, file_path) =>
               /\ raised = "none"
               /\ Len(result) = 1 /\ IsErrorItem(result[1])
               /\ ~parser_invoked
        /\ (/\ code.type = "str" /\ code.size = config.max_code_size
            /\ isinstance_str(file_path)
            /\ Len(file_path) = config.max_file_path_length) =>
               /\ result # error_list("Code too large")
               /\ result # error_list("file_path too long")

\* C6: when the source parses, analyze returns the single-item depth error
\* exactly if some node of the tree is deeper than max_ast_depth (and then no
\* function result); a tree within the limit is not rejected by the guard.
C6_DepthGuard ==
    ReturnedForTree =>
        IF TooDeep(config, code.tree)
        THEN result = error_list("AST depth exceeds maximum")
        ELSE \A i \in 1..Len(result) : ~IsErrorItem(result[i])

\* C6 witness: the depth error was returned for a tree that holds a function
C6_Witness ==
    /\ ReturnedForTree
    /\ TooDeep(config, code.tree)
    /\ result = error_list("AST depth exceeds maximum")
    /\ \E n \in 1..Len(code.tree.parent) : IsFunctionKind(code.tree.node[n].kind)

\* the function nodes of the tree whose assessment says needs_improvement
NeedingImprovement(cfg, tree) ==
    {n \in 1..Len(tree.parent) :
        /\ IsFunctionKind(tree.node[n].kind)
        /\ assess_docstring_quality(cfg, SourceDefs[tree.node[n].def].docstring,
               SourceDefs[tree.node[n].def].name,
               _extract_function_info(tree, n)).needs_improvement}

\* C7: past validation, parsing and the depth guard, analyze returns exactly
\* one result for every function definition of the source (top-level, nested,
\* in a class, async or not) whose assessment needs improvement, and none for
\* any other function: a function assessed excellent is never in the output.
C7_OneResultPerFunctionNeedingImprovement ==
    ReturnedResults =>
        /\ {result[i].line_number : i \in 1..Len(result)}
               = NeedingImprovement(config, code.tree)
        /\ Len(result) = Cardinality(NeedingImprovement(config, code.tree))
        /\ \A i \in 1..Len(result) :
               /\ result[i].quality_assessment.needs_improvement
               /\ result[i].quality_assessment.quality # "excellent"
               /\ result[i].function_name = SourceDefs[code.tree.node[result[i].line_number].def].name

\* C7 witness: the results hold an async function that is not at the top
\* level, and the tree holds a function assessed excellent that is left out
C7_Witness ==
    /\ ReturnedResults
    /\ \E i \in 1..Len(result) :
           /\ code.tree.node[result[i].line_number].kind = "AsyncFunctionDef"
           /\ code.tree.parent[result[i].line_number] # 1
    /\ \E n \in 1..Len(code.tree.parent) :
           /\ code.tree.node[n].def = "render"
           /\ \A i \in 1..Len(result) : result[i].line_number # n

\* position of node n in the order ast.walk yields the nodes
WalkPosition(tree, n) == CHOOSE k \in 1..Len(walk(tree, 1)) : walk(tree, 1)[k] = n

\* C8: the returned results are in descending order of priority, and results
\* of equal priority are in the order in which the walk found their functions.
C8_SortedByPriorityStable ==
    ReturnedResults =>
        \A i, j \in 1..Len(result) :
            i < j =>
                /\ result[i].priority >= result[j].priority
                /\ result[i].priority = result[j].priority =>
                       WalkPosition(code.tree, result[i].line_number)
                           < WalkPosition(code.tree, result[j].line_number)

\* C8 witness: two results of equal priority whose discovery order is not the
\* order of their lines, after a result of higher priority
C8_Witness ==
    /\ ReturnedResults
    /\ Len(result) >= 3
    /\ result[1].priority > result[2].priority
    /\ \E i \in 1..(Len(result) - 1) :
           /\ result[i].priority = result[i + 1].priority
           /\ result[i].line_number > result[i + 1].line_number

\* C9: documentation that is empty, or shorter than min_docstring_length once
\* trimmed, is assessed poor with score 0.0, missing = ["docstring"],
\* needs_improvement true and no indicators, whatever the name and signature.
C9_EarlyPoorExit ==
    (/\ a_pc # "ready"
     /\ a_docstring = <<>> \/ Len(strip(a_docstring)) < a_config.min_docstring_length)
    => a_quality = [quality |-> "poor", score |-> [num |-> 0, den |-> 1],
                    missing |-> <<<<"d","o","c","s","t","r","i","n","g">>>>, needs_improvement |-> TRUE,
                    indicators |-> <<>>]

\* C9 witness: a text long enough before trimming and too short after it, of
\* a test function with parameters and a return annotation
C9_Witness ==
    /\ a_pc = "assessed"
    /\ Len(a_docstring) >= a_config.min_docstring_length
    /\ Len(strip(a_docstring)) < a_config.min_docstring_length
    /\ strip(a_docstring) # <<>>
    /\ a_func_name = <<"t","e","s","t","_","p","r","o","c","e","s","s">>
    /\ a_func_info.args # <<>>
    /\ a_quality.missing = <<<<"d","o","c","s","t","r","i","n","g">>>>

\* the assessor classified the text a brief one-liner (the early exit not taken)
ClassifiedBrief(cfg, docstring) ==
    /\ ~(docstring = <<>> \/ Len(strip(docstring)) < cfg.min_docstring_length)
    /\ _is_brief_one_liner(cfg, docstring, _detect_terse_notation(cfg, docstring))

\* C10: documentation classified a brief one-liner is assessed poor and
\* needs_improvement whatever its score and the cutoffs, with
\* "comprehensive content (too brief)" first in missing.
C10_BriefOneLinerIsPoor ==
    (a_pc # "ready" /\ ClassifiedBrief(a_config, a_docstring)) =>
        /\ a_quality.quality = "poor"
        /\ a_quality.needs_improvement
        /\ a_quality.missing # <<>>
        /\ Head(a_quality.missing) = <<"c","o","m","p","r","e","h","e","n","s","i","v","e"," ","c","o","n","t","e","n","t"," ","(","t","o","o"," ","b","r","i","e","f",")">>

\* C10 witness: a brief one-liner whose score reaches the excellent cutoff
C10_Witness ==
    /\ a_pc = "assessed"
    /\ ClassifiedBrief(a_config, a_docstring)
    /\ ScoreAtLeast(a_quality.score, a_config.quality_thresholds.excellent)
    /\ a_quality.quality = "poor"

\* the assessment went past the early exit
Assessed == a_pc # "ready" /\ ~(a_docstring = <<>> \/ Len(strip(a_docstring)) < a_config.min_docstring_length)

\* C11: for a text that is no brief one-liner the level is excellent if the
\* score reaches the excellent cutoff, else good if it reaches the good cutoff,
\* else basic if it reaches the basic cutoff, else poor; needs_improvement is
\* false exactly when the level is excellent.
C11_TierByCutoffs ==
    (Assessed /\ ~ClassifiedBrief(a_config, a_docstring)) =>
        LET n == a_quality.score.num * 1000
            d == a_quality.score.den
            q == a_config.quality_thresholds
        IN  /\ a_quality.quality = "excellent" <=> n >= q.excellent * d
            /\ a_quality.quality = "good" <=> (n < q.excellent * d /\ n >= q.good * d)
            /\ a_quality.quality = "basic" <=>
                   (n < q.excellent * d /\ n < q.good * d /\ n >= q.basic * d)
            /\ a_quality.quality = "poor" <=>
                   (n < q.excellent * d /\ n < q.good * d /\ n < q.basic * d)
            /\ a_quality.needs_improvement <=> a_quality.quality # "excellent"

\* C11 witness: a text that is no brief one-liner and whose score is exactly
\* the excellent cutoff: excellent, no improvement needed
C11_Witness ==
    /\ Assessed
    /\ ~ClassifiedBrief(a_config, a_docstring)
    /\ a_quality.score.num * 1000 = a_config.quality_thresholds.excellent * a_quality.score.den
    /\ a_quality.quality = "excellent"
    /\ ~a_quality.needs_improvement

\* the names of the false indicators, in the order of the indicator set
RECURSIVE FalseIndicatorNames(_)
FalseIndicatorNames(indicators) ==
    IF indicators = <<>> THEN <<>>
    ELSE (IF Head(indicators)[2] THEN <<>>
          ELSE <<[i \in 1..Len(Head(indicators)[1]) |->
                     IF Head(indicators)[1][i] = "_" THEN " "
                     ELSE Head(indicators)[1][i]]>>)
         \o FalseIndicatorNames(Tail(indicators))

\* the number of true indicators
RECURSIVE TrueIndicators(_)
TrueIndicators(indicators) ==
    IF indicators = <<>> THEN 0
    ELSE (IF Head(indicators)[2] THEN 1 ELSE 0) + TrueIndicators(Tail(indicators))

\* the place of an indicator in the declaration of QualityIndicators
DeclaredPosition(key) == CHOOSE k \in 1..Len(QualityIndicators) : QualityIndicators[k] = key

\* the indicators are in declaration order
InDeclarationOrder(indicators) ==
    /\ \A i \in 1..Len(indicators) :
           \E k \in 1..Len(QualityIndicators) : QualityIndicators[k] = indicators[i][1]
    /\ \A i, j \in 1..Len(indicators) :
           i < j => DeclaredPosition(indicators[i][1]) < DeclaredPosition(indicators[j][1])

\* score = true indicators / indicators of the set, in [0, 1], the set not empty
ScoreIsFractionOfTrue ==
    /\ a_quality.indicators # <<>>
    /\ a_quality.score.den = Len(a_quality.indicators)
    /\ a_quality.score.num = TrueIndicators(a_quality.indicators)
    /\ 0 <= a_quality.score.num /\ a_quality.score.num <= a_quality.score.den
    /\ InDeclarationOrder(a_quality.indicators)

\* C12 as stated: past the early exit the score is the number of true
\* indicators over the number of indicators, in [0, 1], the set is not empty,
\* and missing names exactly the false indicators in declaration order.
C12_ScoreAndMissing ==
    Assessed =>
        /\ ScoreIsFractionOfTrue
        /\ a_quality.missing = FalseIndicatorNames(a_quality.indicators)

\* C12 amended: as C12, but for a brief one-liner missing starts with the entry
\* "comprehensive content (too brief)", which names no indicator, and names
\* the false indicators after it; the early exit gives score 0.0.
C12_ScoreAndMissingAfterBriefEntry ==
    /\ Assessed =>
           /\ ScoreIsFractionOfTrue
           /\ a_quality.missing =
                  (IF ClassifiedBrief(a_config, a_docstring)
                   THEN <<<<"c","o","m","p","r","e","h","e","n","s","i","v","e"," ","c","o","n","t","e","n","t"," ","(","t","o","o"," ","b","r","i","e","f",")">>>> ELSE <<>>)
                  \o FalseIndicatorNames(a_quality.indicators)
    /\ (a_pc # "ready" /\ ~Assessed) =>
           a_quality.score.num = 0 /\ a_quality.score.den > 0

\* C12 witness: a brief one-liner of a test function with a true indicator
\* and false ones
C12_Witness ==
    /\ Assessed
    /\ ClassifiedBrief(a_config, a_docstring)
    /\ _is_test_function(a_func_name)
    /\ a_quality.score.num > 0
    /\ Len(a_quality.missing) > 3

\* the keys of an indicator set
IndicatorKeys(indicators) == {indicators[i][1] : i \in 1..Len(indicators)}

\* C13: past the early exit the indicator set has 8 indicators for an ordinary
\* function and 11 for a test function, whose set has the arrangement, action
\* and assertion indicators in place of the four section indicators.
C13_IndicatorCounts ==
    Assessed =>
        IF _is_test_function(a_func_name)
        THEN /\ Len(a_quality.indicators) = 11
             /\ IndicatorKeys(a_quality.indicators)
                    \cap {<<"a","r","g","s","_","s","e","c","t","i","o","n">>, <<"r","e","t","u","r","n","s","_","s","e","c","t","i","o","n">>, <<"r","a","i","s","e","s","_","s","e","c","t","i","o","n">>,
                          <<"e","x","a","m","p","l","e","_","s","e","c","t","i","o","n">>} = {}
             /\ {<<"a","r","r","a","n","g","e","m","e","n","t","_","s","t","e","p","s">>, <<"a","c","t","i","o","n","_","d","e","s","c","r","i","p","t","i","o","n">>, <<"a","s","s","e","r","t","i","o","n","_","s","t","r","a","t","e","g","y">>}
                    \subseteq IndicatorKeys(a_quality.indicators)
        ELSE /\ Len(a_quality.indicators) = 8
             /\ {<<"a","r","g","s","_","s","e","c","t","i","o","n">>, <<"r","e","t","u","r","n","s","_","s","e","c","t","i","o","n">>, <<"r","a","i","s","e","s","_","s","e","c","t","i","o","n">>,
                 <<"e","x","a","m","p","l","e","_","s","e","c","t","i","o","n">>} \subseteq IndicatorKeys(a_quality.indicators)

\* C14 as stated: needs_improvement is true exactly when the score is below
\* the configured excellent cutoff.
C14_NeedsImprovementIffBelowExcellent ==
    a_pc # "ready" =>
        (a_quality.needs_improvement
            <=> ScoreBelow(a_quality.score, a_config.quality_thresholds.excellent))

\* C14 amended: needs_improvement is false exactly when the text went past the
\* early exit, is no brief one-liner and its score reaches the excellent cutoff.
C14_NeedsImprovementUnlessExcellent ==
    a_pc # "ready" =>
        (a_quality.needs_improvement
            <=> \/ ~Assessed
                \/ ClassifiedBrief(a_config, a_docstring)
                \/ ScoreBelow(a_quality.score, a_config.quality_thresholds.excellent))

\* C14 witness: a scored brief one-liner of an ordinary function that needs
\* improvement although its score is not below the excellent cutoff
C14_Witness ==
    /\ a_pc = "scored"
    /\ ClassifiedBrief(a_config, a_docstring)
    /\ ~_is_test_function(a_func_name)
    /\ ~ScoreBelow(a_quality.score, a_config.quality_thresholds.excellent)
    /\ a_quality.needs_improvement

\* the number of parameters of a descriptor that are not named self
RECURSIVE ParametersNotSelf(_)
ParametersNotSelf(args) ==
    IF args = <<>> THEN 0
    ELSE (IF Head(args).name = <<"s","e","l","f">> THEN 0 ELSE 1) + ParametersNotSelf(Tail(args))

\* C15: calculate_priority returns visibility (3 if public, 0 if private)
\* + complexity (2 above the high cutoff, else 1 above the medium cutoff, else
\* 0) + signature (min(parameters not named self, configured cap), plus 2 for
\* a return annotation other than None) + quality gap (3 if score < 0.3, 2 if
\* score < 0.6, 1 if score < 0.8, else 0).
C15_PriorityIsSumOfFour ==
    a_pc = "scored" =>
        LET t == a_config.thresholds
            p == ParametersNotSelf(a_func_info.args)
            n == a_quality.score.num
            d == a_quality.score.den
            visibility == IF a_func_info.is_private THEN 0 ELSE 3
            complexity == IF a_func_info.complexity > t.complexity_high THEN 2
                          ELSE IF a_func_info.complexity > t.complexity_medium THEN 1
                          ELSE 0
            signature == (IF p < t.max_param_priority_contribution
                          THEN p ELSE t.max_param_priority_contribution)
                         + (IF a_func_info.returns \notin {PyNone, <<>>, <<"N","o","n","e">>}
                            THEN 2 ELSE 0)
            gap == IF 10 * n < 3 * d THEN 3
                   ELSE IF 10 * n < 6 * d THEN 2
                   ELSE IF 10 * n < 8 * d THEN 1
                   ELSE 0
        IN  a_priority = visibility + complexity + signature + gap

\* C15 witness: a public function above the high complexity cutoff with more
\* parameters than the cap and a return annotation, its score in [0.3, 0.6)
C15_Witness ==
    /\ a_pc = "scored"
    /\ ~a_func_info.is_private
    /\ a_func_info.complexity > a_config.thresholds.complexity_high
    /\ ParametersNotSelf(a_func_info.args) > a_config.thresholds.max_param_priority_contribution
    /\ a_func_info.returns = <<"s","t","r">>
    /\ 10 * a_quality.score.num >= 3 * a_quality.score.den
    /\ 10 * a_quality.score.num < 6 * a_quality.score.den
    /\ a_priority = 3 + 2 + a_config.thresholds.max_param_priority_contribution + 2 + 2

\* C20: calculate_priority returns a priority between 1 and 10 for every
\* function descriptor and quality assessment.
C20_PriorityBetween1And10 == a_pc = "scored" => (1 <= a_priority /\ a_priority <= 10)

\* results i and j are of two functions that differ only in a leading
\* underscore on the name, i the public one
UnderscorePair(i, j) ==
    /\ result[i].function_name # <<>>
    /\ Head(result[i].function_name) # "_"
    /\ result[j].function_name = <<"_">> \o result[i].function_name
    /\ result[i].function_info.args = result[j].function_info.args
    /\ result[i].function_info.returns = result[j].function_info.returns
    /\ result[i].function_info.complexity = result[j].function_info.complexity
    /\ result[i].function_info.decorators = result[j].function_info.decorators
    /\ result[i].current_docstring = result[j].current_docstring

\* C16 as stated: of two functions of one analysed source that differ only in
\* a leading underscore on the name, the public one has the strictly greater
\* priority.
C16_PublicAbovePrivate ==
    ReturnedResults =>
        \A i, j \in 1..Len(result) :
            UnderscorePair(i, j) => result[i].priority > result[j].priority

\* C16 amended: when the public name does not begin with test_, the public
\* one's priority is the private one's plus 3.
C16_PublicAbovePrivateUnlessTestName ==
    ReturnedResults =>
        \A i, j \in 1..Len(result) :
            (UnderscorePair(i, j) /\ ~startswith(result[i].function_name, <<"t","e","s","t","_">>)) =>
                result[i].priority = result[j].priority + 3

\* C16 witness: process and _process, with the same body, both reported
C16_Witness ==
    /\ ReturnedResults
    /\ \E i, j \in 1..Len(result) :
           /\ UnderscorePair(i, j)
           /\ result[i].function_name = <<"p","r","o","c","e","s","s">>
           /\ result[i].function_info.complexity = 2
           /\ result[i].priority > result[j].priority

\* ---- C17

\* first line of the text as the assessor sees it
FirstLine(docstring) == strip(split_lines(strip(docstring))[1])

\* The documentation has the layout the round trip is about: the four sections,
\* a brief that is one capitalized sentence, detail in more than one paragraph
\* (so at least two blank lines after the brief), and a business keyword
IsRoundTripDoc(docstring) ==
    /\ contains(docstring, <<"A","r","g","s",":">>) \/ contains(docstring, <<"P","a","r","a","m","e","t","e","r","s",":">>)
    /\ contains(docstring, <<"R","e","t","u","r","n","s",":">>) \/ contains(docstring, <<"R","e","t","u","r","n",":">>)
    /\ contains(docstring, <<"R","a","i","s","e","s",":">>) \/ contains(docstring, <<"R","a","i","s","e",":">>)
    /\ contains(docstring, <<"E","x","a","m","p","l","e","s",":">>) \/ contains(docstring, <<"E","x","a","m","p","l","e",":">>)
    /\ Len(FirstLine(docstring)) >= 2
    /\ IsUpper(FirstLine(docstring)[1])
    /\ FirstLine(docstring)[Len(FirstLine(docstring))] = "."
    /\ count_blank_lines(docstring) >= 2
    /\ \E keyword \in BusinessKeywords : contains(lower(docstring), keyword)

\* C17 as stated: every function whose documentation has the four sections, a
\* capitalized one-sentence brief, a multi-paragraph body and business keywords
\* is scored at or above the GOOD cutoff.
C17_RoundTripReachesGood ==
    (Assessed /\ IsRoundTripDoc(a_docstring))
        => ScoreAtLeast(a_quality.score, a_config.quality_thresholds.good)

\* C17, amended: such documentation of a function whose name does not begin
\* with "test_", when it is long enough to pass the minimal-length exit, has the
\* four section indicators and the business-context indicator true, so its
\* score is at least 5/8; that is at or above the GOOD cutoff whenever the
\* cutoff is no more than 0.625, as the default 0.6 is.
C17_RoundTripReachesGoodOutsideTests ==
    (/\ Assessed
     /\ IsRoundTripDoc(a_docstring)
     /\ ~_is_test_function(a_func_name)
     /\ ~_is_minimal_docstring(a_config, a_docstring))
        => /\ \A key \in {<<"a","r","g","s","_","s","e","c","t","i","o","n">>, <<"r","e","t","u","r","n","s","_","s","e","c","t","i","o","n">>, <<"r","a","i","s","e","s","_","s","e","c","t","i","o","n">>,
                          <<"e","x","a","m","p","l","e","_","s","e","c","t","i","o","n">>, <<"b","u","s","i","n","e","s","s","_","c","o","n","t","e","x","t">>} :
                  DictGet(a_quality.indicators, key, FALSE)
           /\ ScoreAtLeast(a_quality.score, 625)
           /\ a_config.quality_thresholds.good <= 625
                  => ScoreAtLeast(a_quality.score, a_config.quality_thresholds.good)

\* a full-layout text of an ordinary function was assessed under the default
\* cutoffs, its sections spelled the second way, and came out at exactly 5/8
C17_Witness ==
    /\ Assessed
    /\ IsRoundTripDoc(a_docstring)
    /\ ~_is_test_function(a_func_name)
    /\ contains(a_docstring, <<"P","a","r","a","m","e","t","e","r","s",":">>)
    /\ a_config.quality_thresholds.good = 600
    /\ a_quality.score = [num |-> 5, den |-> 8]

\* ---- C19

\* every threshold and limit is non-negative and the cutoffs are in order
ValidConfig(cfg) ==
    /\ \A f \in DOMAIN cfg.thresholds : cfg.thresholds[f] >= 0
    /\ \A f \in DOMAIN cfg.quality_thresholds : cfg.quality_thresholds[f] >= 0
    /\ \A f \in DOMAIN cfg \ {"thresholds", "quality_thresholds"} : cfg[f] >= 0
    /\ cfg.quality_thresholds.excellent >= cfg.quality_thresholds.good
    /\ cfg.quality_thresholds.good >= cfg.quality_thresholds.basic

\* C19: every configuration an analysis runs with has all thresholds and
\* limits non-negative and the cutoffs ordered excellent >= good >= basic; no
\* other configuration can be constructed.
C19_ConfigurationInvariant == a_pc # "unconfigured" => ValidConfig(a_config)

\* ---- C18

HasTraversal(p) == isinstance_str(p) /\ (contains(p, <<".",".","/">>) \/ contains(p, <<".",".","\\">>))

\* the identifier of the same length without the pattern: every "." replaced
Untraverse(p) == [i \in 1..Len(p) |-> IF p[i] = "." THEN "a" ELSE p[i]]

Relabel(results, p) == [i \in 1..Len(results) |-> [results[i] EXCEPT !.file_path = p]]

\* the error lists the security validation returns
ValidationErrors ==
    {error_list(m) : m \in {"Code too large", "file_path must be string",
                            "file_path too long", "file_path contains null byte"}}

\* C21: a traversal pattern in the file identifier is never a reason for
\* rejection: the validation answers as it does for the identifier of the same
\* length without the pattern; when it rejects that one, the same error is
\* returned without parsing, when it accepts that one, no validation error is
\* returned; and the results returned are the ones for that identifier with
\* the file_path label exchanged.
C21_TraversalNotRejected ==
    (pc = "returned" /\ raised = "none" /\ HasTraversal(file_path)) =>
        /\ _validate_code_security(config, code, file_path)
               = _validate_code_security(config, code, Untraverse(file_path))
        /\ _validate_code_security(config, code, Untraverse(file_path)) # <<>>
               => /\ result = _validate_code_security(config, code, Untraverse(file_path))
                  /\ ~parser_invoked
        /\ _validate_code_security(config, code, Untraverse(file_path)) = <<>>
               => result \notin ValidationErrors
        /\ ReturnedResults =>
               /\ result = Relabel(_sort_by_priority(
                               _extract_functions_needing_improvement(
                                   config, code.tree, Untraverse(file_path))), file_path)
               /\ \A i \in 1..Len(result) : result[i].file_path = file_path

\* C21 witness: results were returned under a traversal identifier
C21_Witness ==
    /\ ReturnedResults
    /\ HasTraversal(file_path)
    /\ ~HasTraversal(Untraverse(file_path))
    /\ logged
    /\ Len(result) >= 2
    /\ result[1].file_path = file_path

\* ---- C26

\* the indicators as they are before the signature-coverage pass
IndicatorsBeforeCoverage(cfg, docstring, func_name, func_info) ==
    _calculate_quality_indicators(cfg, docstring, func_info,
        _is_test_function(func_name), _detect_terse_notation(cfg, docstring),
        _is_brief_one_liner(cfg, docstring, _detect_terse_notation(cfg, docstring)))

\* C26: the signature-coverage pass never raises the score: the indicators
\* after it have the names they had before it, in the same order, each is
\* true only if it was true before, and a test function has no args_section
\* and no returns_section indicator after it.
C26_CoverageNeverRaises ==
    Assessed =>
        LET before == IndicatorsBeforeCoverage(a_config, a_docstring, a_func_name,
                                               a_func_info)
            after == a_quality.indicators
        IN  /\ Len(after) = Len(before)
            /\ \A i \in 1..Len(after) :
                   /\ after[i][1] = before[i][1]
                   /\ after[i][2] => before[i][2]
            /\ Len(SelectSeq(after, _item_is_true)) <= Len(SelectSeq(before, _item_is_true))
            /\ _is_test_function(a_func_name) =>
                   /\ ~DictHas(after, <<"a","r","g","s","_","s","e","c","t","i","o","n">>)
                   /\ ~DictHas(after, <<"r","e","t","u","r","n","s","_","s","e","c","t","i","o","n">>)

\* C26 witness: a test function with a parameter and a return annotation went
\* through the pass
C26_Witness ==
    /\ Assessed
    /\ _is_test_function(a_func_name)
    /\ ParametersNotSelf(a_func_info.args) > 0
    /\ Truthy(a_func_info.returns) /\ a_func_info.returns # <<"N","o","n","e">>
    /\ Len(a_quality.indicators) = 7

\* ---- C27

\* the indicator names of an ordinary function, and of a test function
StandardIndicatorKeys ==
    {<<"b","r","i","e","f","_","d","e","s","c","r","i","p","t","i","o","n">>, <<"d","e","t","a","i","l","e","d","_","d","e","s","c","r","i","p","t","i","o","n">>, <<"a","r","g","s","_","s","e","c","t","i","o","n">>,
     <<"r","e","t","u","r","n","s","_","s","e","c","t","i","o","n">>, <<"r","a","i","s","e","s","_","s","e","c","t","i","o","n">>, <<"e","x","a","m","p","l","e","_","s","e","c","t","i","o","n">>,
     <<"b","u","s","i","n","e","s","s","_","c","o","n","t","e","x","t">>, <<"i","m","p","l","e","m","e","n","t","a","t","i","o","n","_","d","e","t","a","i","l","s">>}
TestIndicatorKeys ==
    {<<"b","r","i","e","f","_","d","e","s","c","r","i","p","t","i","o","n">>, <<"d","e","t","a","i","l","e","d","_","d","e","s","c","r","i","p","t","i","o","n">>, <<"a","r","r","a","n","g","e","m","e","n","t","_","s","t","e","p","s">>,
     <<"a","c","t","i","o","n","_","d","e","s","c","r","i","p","t","i","o","n">>, <<"a","s","s","e","r","t","i","o","n","_","s","t","r","a","t","e","g","y">>, <<"t","e","s","t","i","n","g","_","p","r","i","n","c","i","p","l","e","s">>,
     <<"c","o","m","p","r","e","h","e","n","s","i","v","e","_","c","o","n","t","e","n","t">>}

\* C27: the assessor applies the indicator set of a test function exactly when
\* the func_name argument starts with "test_", whatever the is_test flag and
\* the name of the descriptor say; any other name gets the ordinary set.
C27_TestByNameAlone ==
    Assessed =>
        IndicatorKeys(a_quality.indicators)
            = IF Len(a_func_name) >= 5 /\ SubSeq(a_func_name, 1, 5) = <<"t","e","s","t","_">>
              THEN TestIndicatorKeys
              ELSE StandardIndicatorKeys

\* C27 witness: "_test_helper" was assessed with a descriptor whose flag and
\* name say test, and got the ordinary set
C27_Witness ==
    /\ Assessed
    /\ a_func_name = <<"_","t","e","s","t","_","h","e","l","p","e","r">>
    /\ a_func_info.is_test
    /\ a_func_info.name = <<"t","e","s","t","_","p","r","o","c","e","s","s">>
    /\ IndicatorKeys(a_quality.indicators) = StandardIndicatorKeys

\* ---- C28

\* the constructs the estimate is to count
BranchingConstructs ==
    {"If", "While", "For", "AsyncFor", "ExceptHandler", "And", "Or", "comprehension"}

\* the branching constructs in the subtree rooted at node n
BranchesUnder(tree, n) ==
    Cardinality({m \in 1..Len(tree.parent) :
                    /\ n \in AncestorsOrSelf(tree, m)
                    /\ tree.node[m].kind \in BranchingConstructs})

\* C28: the complexity of a returned function is 1 plus the number of
\* branching constructs in the subtree rooted at it, the bodies of nested
\* functions included; so it is at least 1, and at least the complexity of
\* every function nested in it.
C28_ComplexityCountsBranches ==
    ReturnedResults =>
        /\ \A i \in 1..Len(result) :
               /\ result[i].function_info.complexity
                      = 1 + BranchesUnder(code.tree, result[i].line_number)
               /\ result[i].function_info.complexity >= 1
        /\ \A i, j \in 1..Len(result) :
               result[i].line_number \in AncestorsOrSelf(code.tree, result[j].line_number)
                   => result[i].function_info.complexity
                          >= result[j].function_info.complexity

\* C28 witness: a function with a branch in the body of a function nested in it
C28_Witness ==
    /\ ReturnedResults
    /\ Len(result) = 2
    /\ \E i, j \in 1..2 :
           /\ code.tree.parent[result[j].line_number] = result[i].line_number
           /\ result[i].function_info.complexity = 2
           /\ result[j].function_info.complexity = 2

\* ---- C30

\* C30 as stated: under a configuration whose excellent cutoff is at most 0.8
\* every result returned by analyze has priority at least 1.
C30_ReturnedPriorityAtLeast1 ==
    (ReturnedResults /\ config.quality_thresholds.excellent <= 800) =>
        \A i \in 1..Len(result) : result[i].priority >= 1

\* C30, amended: under a configuration whose excellent cutoff is at most 0.8
\* every returned result whose documentation is not classified a brief
\* one-liner has a score below 0.8, a quality-gap contribution of at least 1
\* and a priority of at least 1; under the default configuration that holds
\* of every returned result, a brief one-liner scoring below 0.8 there.
C30_ReturnedPriorityAtLeast1UnlessBrief ==
    (ReturnedResults /\ config.quality_thresholds.excellent <= 800) =>
        \A i \in 1..Len(result) :
            (\/ ~ClassifiedBrief(config, result[i].current_docstring)
             \/ config = DEFAULT_CONFIG) =>
                /\ ScoreBelow(result[i].quality_assessment.score, 800)
                /\ _calculate_quality_gap_score(result[i].quality_assessment) >= 1
                /\ result[i].priority >= 1

\* C30 witness: under the default configuration a private function without
\* parameter, return annotation or branch is returned with priority 1, its
\* documentation a brief one-liner
C30_Witness ==
    /\ ReturnedResults
    /\ config = DEFAULT_CONFIG
    /\ Len(result) = 1
    /\ result[1].function_name = <<"_","t","i","d","y">>
    /\ ClassifiedBrief(config, result[1].current_docstring)
    /\ result[1].priority = 1

\* ------------------------------------------------------------------ C22

IsError(response, error_code) ==
    "error" \in DOMAIN response /\ response.error.code = error_code

\* a request whose method is none of the three the server knows
UnknownMethod(message) ==
    /\ message.shape = "object"
    /\ get(message.method, JNull)
           \notin {JStr("initialize"), JStr("tools/list"), JStr("tools/call")}

\* a tools/call request for another tool than analyze_functions
UnknownTool(message) ==
    /\ message.shape = "object"
    /\ message.method = JStr("tools/call")
    /\ message.params.shape \in {"absent", "object"}
    /\ get(message.params.name, JNull) # JStr("analyze_functions")

\* an analyze_functions call whose code argument is missing or no string
CodeMissingOrNoString(message) ==
    /\ message.shape = "object"
    /\ message.method = JStr("tools/call")
    /\ message.params.shape = "object"
    /\ message.params.name = JStr("analyze_functions")
    /\ message.params.arguments.shape \in {"absent", "object"}
    /\ message.params.arguments.code.type # "str"

\* C22: handle_message never raises: every message it was called with was
\* answered by a JSON-RPC 2.0 response that echoes the request id and carries
\* exactly one of result and error, an unknown method and an unknown tool by
\* METHOD_NOT_FOUND and a missing or non-string code by INVALID_PARAMS.
C22_HandleMessageNeverRaises ==
    s_outcome.kind # "none" =>
        /\ s_outcome.kind = "response"
        /\ s_outcome.response.jsonrpc = "2.0"
        /\ s_outcome.response.id = get(s_message.id, JNull)
        /\ DOMAIN s_outcome.response
               \in {{"jsonrpc", "id", "result"}, {"jsonrpc", "id", "error"}}
        /\ UnknownMethod(s_message) => IsError(s_outcome.response, METHOD_NOT_FOUND)
        /\ UnknownTool(s_message) => IsError(s_outcome.response, METHOD_NOT_FOUND)
        /\ CodeMissingOrNoString(s_message)
               => IsError(s_outcome.response, INVALID_PARAMS)

\* ------------------------------------------------------------------ C29

\* the lines that strip() does not leave empty
NonBlank(lines) == SelectSeq(lines, LAMBDA l : l.kind # "blank")

\* response is the answer to line: PARSE_ERROR with id null for a line that
\* is no JSON, and a response with the request's id otherwise
Answers(response, line) ==
    IF line.kind = "invalid"
    THEN response.id = JNull /\ IsError(response, PARSE_ERROR)
    ELSE /\ line.message.shape = "object"
         /\ response.id = get(line.message.id, JNull)

\* C29: between two lines and after the loop, every non-blank line read so
\* far has exactly one response, in input order, PARSE_ERROR with id null for
\* a line that is no JSON; the loop ends only at the end of input or by an
\* exception that reaches its except clause, and at the end of input not
\* before every line was read.
C29_OneResponsePerLine ==
    /\ s_pc \in {"reading", "stopped"} =>
           /\ Len(stdout) = Len(NonBlank(s_read))
           /\ \A i \in 1..Len(stdout) : Answers(stdout[i], NonBlank(s_read)[i])
    /\ s_pc = "stopped" =>
           /\ s_break \in {"eof", "exception"}
           /\ s_break = "eof" => stdin = <<>>

\* ------------------------------------------------------------------ C24

\* a configuration install_mcp and uninstall_mcp are made for: no file yet, or
\* a JSON object whose "servers", if it has one, is an object
ValidConfiguration(file) ==
    \/ ~file.exists
    \/ /\ file.valid
       /\ file.value.shape = "object"
       /\ DictGet(file.value.items, "servers", ServersObject(<<>>)).shape = "object"

ServerEntries(file) ==
    IF file.exists /\ file.valid /\ file.value.shape = "object"
    THEN DictGet(file.value.items, "servers", ServersObject(<<>>)).entries
    ELSE <<>>

\* the entries under "servers" other than "docscope-mcp", in file order
OtherServers(file) == SelectSeq(ServerEntries(file), LAMBDA e : e[1] # "docscope-mcp")

\* the top-level items other than "servers", in file order
OtherKeys(file) ==
    IF file.exists /\ file.valid /\ file.value.shape = "object"
    THEN SelectSeq(file.value.items, LAMBDA item : item[1] # "servers")
    ELSE <<>>

HasEntry(file) == DictHas(ServerEntries(file), "docscope-mcp")

Succeeded(call) == call.raised = "none" /\ call.rc = 0

\* C24: a successful install or uninstall on a valid configuration keeps
\* every other server entry and every other top-level item, leaves
\* "docscope-mcp" present (install) or absent (uninstall), and leaves the
\* file content as it is when the call before was a successful call of the
\* same command.
C24_OnlyDocscopeEntryChanges ==
    [][(/\ Len(mcp_calls') = Len(mcp_calls) + 1
        /\ ValidConfiguration(mcp_file)
        /\ Succeeded(mcp_calls'[Len(mcp_calls')]))
       => /\ OtherServers(mcp_file') = OtherServers(mcp_file)
          /\ OtherKeys(mcp_file') = OtherKeys(mcp_file)
          /\ mcp_calls'[Len(mcp_calls')].op = "install" => HasEntry(mcp_file')
          /\ mcp_calls'[Len(mcp_calls')].op = "uninstall" => ~HasEntry(mcp_file')
          /\ (/\ mcp_calls # <<>>
              /\ Succeeded(mcp_calls[Len(mcp_calls)])
              /\ mcp_calls[Len(mcp_calls)].op = mcp_calls'[Len(mcp_calls')].op)
             => mcp_file' = mcp_file]_vars

\* C24 witness: two successful installs in a row on a file with another
\* server and another top-level key; the second left the content as it was
C24_Witness ==
    /\ Len(mcp_calls) = 2
    /\ \A i \in 1..2 : mcp_calls[i].op = "install" /\ Succeeded(mcp_calls[i])
    /\ HasEntry(mcp_file)
    /\ OtherServers(mcp_file) # <<>>
    /\ OtherKeys(mcp_file) # <<>>
    /\ mcp_before = mcp_file

\* ------------------------------------------------------------------ C25

\* C25: no call of install_mcp or uninstall_mcp raised; a call on a file that
\* was no valid JSON returned 1 and left the file as it was; an uninstall on
\* a missing file or on a JSON file without the docscope-mcp entry returned
\* 0 and wrote nothing.
C25_NeverRaiseExitCode ==
    mcp_calls # <<>> =>
        LET last == mcp_calls[Len(mcp_calls)]
        IN  /\ last.raised = "none"
            /\ last.rc \in {0, 1}
            /\ (mcp_before.exists /\ ~mcp_before.valid)
                   => (last.rc = 1 /\ ~last.wrote /\ mcp_file = mcp_before)
            /\ (/\ last.op = "uninstall"
                /\ \/ ~mcp_before.exists
                   \/ mcp_before.valid /\ ~HasEntry(mcp_before))
                   => (last.rc = 0 /\ ~last.wrote /\ mcp_file = mcp_before)

\* ------------------------------------------------------------------ C23

\* where the user-provided path leads: the path itself when it is absolute,
\* the path taken from the workspace root otherwise, links and ".." resolved
LeadsTo(links, path) ==
    resolve(links, IF path.absolute THEN path.parts ELSE Workspace \o path.parts)

UnderWorkspace(links, p) == relative_to(resolve(links, p), resolve(links, Workspace))

\* C23: a path that was returned lies under the workspace root, and a
\* user-provided path that resolves outside the workspace root, relative or
\* absolute, with or without symbolic links, was answered by ValueError.
C23_ReturnedPathsStayInWorkspace ==
    fs_outcome.kind # "none" =>
        /\ fs_outcome.kind = "returned" => UnderWorkspace(fs_links, fs_outcome.path)
        /\ ~UnderWorkspace(fs_links, LeadsTo(fs_links, fs_path))
               => fs_outcome.kind = "ValueError"
====
